---- MODULE Spec2Model ----
(***************************************************************************)
(* Churn-risk rules engine of churn_pilot (src/core/rules).                *)
(*                                                                         *)
(* Instants are counted in ticks, TicksPerDay ticks to a day, so that a    *)
(* timestamp can lie a whole number of days plus a fraction before the     *)
(* clock.  A nullable value is the empty tuple (NULL) or a one-element     *)
(* tuple <<v>>.                                                            *)
(***************************************************************************)
EXTENDS Integers, Sequences, FiniteSets

\* ---------------------------------------------------------------- bounds
TicksPerDay == 2
MaxDay == 16
MaxCreatedAt == 1
MaxLastActiveAt == 7
MaxAdvance == 1
MaxBatch == 2

MaxClock == MaxDay * TicksPerDay

\* subscriptions.list returns at most MaxSubs subscriptions
MaxSubs == 1

\* the list attempts of one call of syncBillingData that are followed
MaxAttempts == 3

\* the calls of upsertAccount that are followed
MaxUpserts == 3

\* the toggle-pause requests that are followed
MaxToggles == 2

\* ------------------------------------------------------------ data model
NULL == <<>>

Account ==
  [ activated            : BOOLEAN,
    core_used            : BOOLEAN,
    usage_freq           : {"DAILY", "WEEKLY"},
    billing_status       : {"ACTIVE", "PAYMENT_FAILED", "CANCELING", "CANCELED"},
    cancel_at_period_end : BOOLEAN,
    created_at           : {<<t>> : t \in 0..MaxCreatedAt},
    last_active_at       : {NULL} \cup {<<t>> : t \in 0..MaxLastActiveAt} ]

RiskLevel == {"HIGH", "MEDIUM", "HEALTHY"}

Action == {"SEND_MESSAGE", "DO_NOTHING"}

RuleResult ==
  [ ruleId          : STRING,
    ruleName        : STRING,
    riskLevel       : RiskLevel,
    reason          : STRING,
    suggestedAction : Action ]

VARIABLES
  clock,    \* the system clock, what new Date() returns
  subject,  \* the account record the caller holds
  log,      \* the most recent calls of evaluateAccount, oldest first
  rules,    \* the array RULES_IN_ORDER as it stands in memory
  accounts, \* the array of accounts a caller passes to the batch functions
  batch     \* the last call of evaluateAccounts or groupByRisk: its input,
            \* the calls of evaluateAccount it made, and what it returned

engineVars == <<clock, subject, log, rules, accounts, batch>>

VARIABLES
  genAI,    \* whether the Gemini client exists (GEMINI_API_KEY was set)
  gen,      \* the last call a caller made of generateRecommendation:
            \* arguments, the AI's reply, and how the promise settled
  recs      \* the current call of generateRecommendations: its arguments and
            \* the entries whose generateRecommendation has settled

aiVars == <<genAI, gen, recs>>

VARIABLES
  founders,      \* the ids in table founders
  accountRows,   \* table accounts: the rows, each with its founder_id
  outbox,        \* the emails Resend accepted
  digest_logs,   \* the inserts made into table digest_logs
  decision_logs, \* the inserts made into table decision_logs
  answer         \* the request served: what sendWeeklyDigest returned for
                 \* it and the HTTP response

digestVars ==
  <<founders, accountRows, outbox, digest_logs, decision_logs, answer>>

VARIABLES
  founderRows,   \* table founders: for each id, the columns plan,
                 \* service_paused and the Stripe credentials
  stripe,        \* Stripe as the API shows it: whether the OAuth client is
                 \* configured and the subscriptions of the founders' account
  sendAll,       \* the current run of sendAllWeeklyDigests: the founders
                 \* selected and the results pushed so far
  sync,          \* the current outer call of syncBillingData: its position,
                 \* the list attempts and token refreshes it has made
  upsert,        \* the last call of upsertAccount: its arguments, the table
                 \* before it and the id it returned
  event,         \* the last webhook event handleWebhookEvent was given and
                 \* table founders before it
  toggles        \* the POST /api/account/toggle-pause requests: where each
                 \* stands, what it read and what it answered

billingVars ==
  <<founderRows, stripe, sendAll, sync, upsert, event, toggles>>

serviceVars == <<aiVars, digestVars, billingVars>>

vars == <<engineVars, serviceVars>>

\* ----------------------------------------------------------------- rules
H4_PreCancel ==
  [ id |-> "H4", name |-> "Pre-Cancel",
    riskLevel |-> "HIGH", suggestedAction |-> "SEND_MESSAGE" ]

H3_PaymentFailure ==
  [ id |-> "H3", name |-> "Payment Failure",
    riskLevel |-> "HIGH", suggestedAction |-> "SEND_MESSAGE" ]

H2_NeverActivated ==
  [ id |-> "H2", name |-> "Never Activated",
    riskLevel |-> "HIGH", suggestedAction |-> "SEND_MESSAGE" ]

H1_SilentDropoff ==
  [ id |-> "H1", name |-> "Silent Drop-off",
    riskLevel |-> "HIGH", suggestedAction |-> "SEND_MESSAGE" ]

M1_LowEngagement ==
  [ id |-> "M1", name |-> "Low Engagement",
    riskLevel |-> "MEDIUM", suggestedAction |-> "SEND_MESSAGE" ]

Healthy_sendMessage ==
  [ id |-> "G1", name |-> "Healthy",
    riskLevel |-> "HEALTHY", suggestedAction |-> "SEND_MESSAGE" ]

Healthy ==
  [ id |-> "G1", name |-> "Healthy",
    riskLevel |-> "HEALTHY", suggestedAction |-> "DO_NOTHING" ]

H4_evaluate(account) == account.cancel_at_period_end = TRUE

H3_evaluate(account) == account.billing_status = "PAYMENT_FAILED"

H2_evaluate_atLeast(account, accountAgeDays) ==
  account.activated = FALSE /\ accountAgeDays >= 7

H2_evaluate(account, accountAgeDays) ==
  account.activated = FALSE /\ accountAgeDays > 7

H1_evaluate_swapped(account, daysSinceActive) ==
  IF ~account.activated \/ daysSinceActive = NULL
  THEN FALSE
  ELSE LET threshold == IF account.usage_freq = "DAILY" THEN 14 ELSE 7
       IN  daysSinceActive[1] > threshold

\* H1 without its test of account.activated
H1_evaluate_anyAccount(account, daysSinceActive) ==
  IF daysSinceActive = NULL
  THEN FALSE
  ELSE LET threshold == IF account.usage_freq = "DAILY" THEN 7 ELSE 14
       IN  daysSinceActive[1] > threshold

H1_evaluate(account, daysSinceActive) ==
  IF ~account.activated \/ daysSinceActive = NULL
  THEN FALSE
  ELSE LET threshold == IF account.usage_freq = "DAILY" THEN 7 ELSE 14
       IN  daysSinceActive[1] > threshold

M1_evaluate_atLeast(account, daysSinceActive) ==
  IF daysSinceActive = NULL
  THEN FALSE
  ELSE daysSinceActive[1] >= 4 /\ account.core_used = FALSE

M1_evaluate(account, daysSinceActive) ==
  IF daysSinceActive = NULL
  THEN FALSE
  ELSE daysSinceActive[1] > 4 /\ account.core_used = FALSE

Healthy_evaluate == TRUE

\* rule.evaluate(account, accountAgeDays, daysSinceActive)
evaluate(rule, account, accountAgeDays, daysSinceActive) ==
  CASE rule.id = "H4" -> H4_evaluate(account)
    [] rule.id = "H3" -> H3_evaluate(account)
    [] rule.id = "H2" -> H2_evaluate(account, accountAgeDays)
    [] rule.id = "H1" -> H1_evaluate(account, daysSinceActive)
    [] rule.id = "M1" -> M1_evaluate(account, daysSinceActive)
    [] rule.id = "G1" -> Healthy_evaluate

\* rule.getReason(account)
getReason(rule, account) ==
  CASE rule.id = "H4" -> "User has requested to cancel at period end."
    [] rule.id = "H3" -> "Payment failed on last invoice."
    [] rule.id = "H2" -> "Never reached first value after signup."
    [] rule.id = "H1" ->
         IF account.usage_freq = "DAILY"
         THEN "Stopped using product after activation (expected daily usage)."
         ELSE "Stopped using product after activation (expected weekly usage)."
    [] rule.id = "M1" -> "Low engagement, has not used core feature."
    [] rule.id = "G1" -> "Healthy usage patterns."

RULES_IN_ORDER_H3First ==
  << H3_PaymentFailure, H4_PreCancel, H2_NeverActivated,
     H1_SilentDropoff, M1_LowEngagement, Healthy >>

RULES_IN_ORDER_HealthyFirst ==
  << Healthy, H4_PreCancel, H3_PaymentFailure, H2_NeverActivated,
     H1_SilentDropoff, M1_LowEngagement >>

RULES_IN_ORDER ==
  << H4_PreCancel, H3_PaymentFailure, H2_NeverActivated,
     H1_SilentDropoff, M1_LowEngagement, Healthy >>

\* ---------------------------------------------------------------- engine
\* date-fns differenceInDays: full days between the two instants,
\* truncated towards zero.
differenceInDays_rounded(laterDate, earlierDate) ==
  LET diff == laterDate - earlierDate
  IN  IF diff >= 0 THEN (2 * diff + TicksPerDay) \div (2 * TicksPerDay)
                   ELSE 0 - ((2 * (0 - diff) + TicksPerDay) \div (2 * TicksPerDay))

differenceInDays(laterDate, earlierDate) ==
  LET diff == laterDate - earlierDate
  IN  IF diff >= 0 THEN diff \div TicksPerDay
                   ELSE 0 - ((0 - diff) \div TicksPerDay)

\* new Date(null) is the epoch, instant 0.
daysSince_noNullCheck(date, now) ==
  IF date = NULL THEN <<differenceInDays(now, 0)>>
                 ELSE <<differenceInDays(now, date[1])>>

\* `now` is the value new Date() yields inside this call of daysSince.
daysSince(date, now) ==
  IF date = NULL THEN NULL ELSE <<differenceInDays(now, date[1])>>

ResultOf(rule, account) ==
  [ ruleId          |-> rule.id,
    ruleName        |-> rule.name,
    riskLevel       |-> rule.riskLevel,
    reason          |-> getReason(rule, account),
    suggestedAction |-> rule.suggestedAction ]

\* the statement after the loop
Fallback ==
  [ ruleId          |-> "G1",
    ruleName        |-> "Healthy",
    riskLevel       |-> "HEALTHY",
    reason          |-> "Healthy usage patterns.",
    suggestedAction |-> "DO_NOTHING" ]

\* what a function that ends without a return yields
Undefined == [ undefined |-> TRUE ]

\* the loop without the catch-all entry and without the statement after it
RECURSIVE ruleLoop_noDefault(_, _, _, _)
ruleLoop_noDefault(i, account, accountAgeDays, daysSinceActive) ==
  IF i > Len(rules) - 1
  THEN Undefined
  ELSE IF evaluate(rules[i], account, accountAgeDays, daysSinceActive)
       THEN ResultOf(rules[i], account)
       ELSE ruleLoop_noDefault(i + 1, account, accountAgeDays, daysSinceActive)

\* for (const rule of RULES_IN_ORDER) from position i on
RECURSIVE ruleLoop(_, _, _, _)
ruleLoop(i, account, accountAgeDays, daysSinceActive) ==
  IF i > Len(rules)
  THEN Fallback
  ELSE IF evaluate(rules[i], account, accountAgeDays, daysSinceActive)
       THEN ResultOf(rules[i], account)
       ELSE ruleLoop(i + 1, account, accountAgeDays, daysSinceActive)

\* evaluateAccount with the account kept in state shared by the calls and
\* set only at the end of a call: the rules run on the account of the call
\* before
evaluateAccount_carried(account, now1, now2) ==
  LET used            == IF Len(log) > 0 THEN log[Len(log)].account ELSE account
      created         == daysSince(used.created_at, now1)
      accountAgeDays  == IF created = NULL THEN 0 ELSE created[1]
      daysSinceActive == daysSince(used.last_active_at, now2)
  IN  [ accountAgeDays  |-> accountAgeDays,
        daysSinceActive |-> daysSinceActive,
        result          |-> ruleLoop(1, used, accountAgeDays, daysSinceActive) ]

\* One call of evaluateAccount: now1 and now2 are what the clock reads in the
\* first and in the second call of daysSince.  The two locals are kept
\* with the result.
evaluateAccount(account, now1, now2) ==
  LET created         == daysSince(account.created_at, now1)
      accountAgeDays  == IF created = NULL THEN 0 ELSE created[1]
      daysSinceActive == daysSince(account.last_active_at, now2)
  IN  [ accountAgeDays  |-> accountAgeDays,
        daysSinceActive |-> daysSinceActive,
        result          |-> ruleLoop(1, account, accountAgeDays, daysSinceActive) ]

\* ------------------------------------------------------------ operations
\* what the variables of the batch functions hold before any call of them
NoBatch ==
  /\ accounts = <<>>
  /\ batch = NULL

\* empty tables, nothing sent, no request
NoDigest ==
  /\ founders = {}
  /\ accountRows = <<>>
  /\ outbox = <<>>
  /\ digest_logs = <<>>
  /\ decision_logs = <<>>
  /\ answer = NULL

\* a newly created founder: on trial, not paused, no Stripe credential
NewFounder ==
  [ plan                 |-> "trial",
    service_paused       |-> FALSE,
    stripe_api_key       |-> NULL,
    stripe_access_token  |-> NULL,
    stripe_refresh_token |-> NULL ]

\* Stripe not connected: no OAuth client, no subscription
NoStripe == [ configured |-> FALSE, subscriptions |-> <<>> ]

\* no cron run, no billing sync, no webhook, no toggle request
NoBilling ==
  /\ founderRows = [ f \in founders |-> NewFounder ]
  /\ stripe = NoStripe
  /\ sendAll = NULL
  /\ sync = NULL
  /\ upsert = NULL
  /\ event = NULL
  /\ toggles = <<>>

\* the engine alone: no AI client, and NoDigest
NoService ==
  /\ genAI = FALSE
  /\ gen = NULL
  /\ recs = NULL
  /\ NoDigest
  /\ NoBilling

Init ==
  /\ clock \in 0..MaxClock
  /\ subject \in Account
  /\ log = <<>>
  /\ rules = RULES_IN_ORDER
  /\ NoBatch
  /\ NoService

\* The caller evaluates the account it holds; the clock may advance between
\* the two readings of it.  The last `keep` calls are remembered.
EvaluateAccount(keep) ==
  \E advance \in 0..MaxAdvance :
    LET now1  == clock
        now2  == clock + advance
        frame == evaluateAccount(subject, now1, now2)
        call  == [ account         |-> subject,
                   now1            |-> now1,
                   now2            |-> now2,
                   accountAgeDays  |-> frame.accountAgeDays,
                   daysSinceActive |-> frame.daysSinceActive,
                   result          |-> frame.result ]
        all   == Append(log, call)
    IN  /\ now2 <= MaxClock
        /\ clock' = now2
        /\ log' = IF Len(all) > keep THEN Tail(all) ELSE all
        /\ UNCHANGED <<subject, rules, accounts, batch, serviceVars>>

Next == EvaluateAccount(1)

Spec == Init /\ [][Next]_vars

\* A caller that evaluates one account after another and keeps the last
\* three calls, over a small set of accounts.
DetAccount ==
  { a \in Account :
      /\ a.usage_freq = "DAILY"
      /\ a.billing_status = "ACTIVE"
      /\ ~a.cancel_at_period_end
      /\ a.created_at = <<0>>
      /\ a.last_active_at = <<0>> }

InitDet ==
  /\ clock \in 0..MaxClock
  /\ subject \in DetAccount
  /\ log = <<>>
  /\ rules = RULES_IN_ORDER
  /\ NoBatch
  /\ NoService

\* the caller turns to another account
NextAccount(a) ==
  /\ a # subject
  /\ subject' = a
  /\ UNCHANGED <<clock, log, rules, accounts, batch, serviceVars>>

NextDet ==
  \/ EvaluateAccount(3)
  \/ \E a \in DetAccount : NextAccount(a)

SpecDet == InitDet /\ [][NextDet]_vars

\* ------------------------------------------------------- batch functions
\* The record kept of one call of evaluateAccount.
CallOf(account, now1, now2) ==
  LET frame == evaluateAccount(account, now1, now2)
  IN  [ account         |-> account,
        now1            |-> now1,
        now2            |-> now2,
        accountAgeDays  |-> frame.accountAgeDays,
        daysSinceActive |-> frame.daysSinceActive,
        result          |-> frame.result ]

RECURSIVE SumTo(_, _)
SumTo(advance, n) == IF n = 0 THEN 0 ELSE advance[n] + SumTo(advance, n - 1)

\* The two readings of the clock in each of n consecutive calls that start
\* at `start`, the clock advancing by advance[i] inside call i.
Readings(start, advance, n) ==
  [ i \in 1..n |->
      << start + SumTo(advance, i - 1), start + SumTo(advance, i) >> ]

evaluateAccounts_alwaysFilter(accts, options, nows) ==
  LET results == [ i \in 1..Len(accts) |->
                     [ account |-> accts[i],
                       result  |-> evaluateAccount(accts[i], nows[i][1], nows[i][2]).result ] ]
  IN  SelectSeq(results, LAMBDA r : r.result.riskLevel # "HEALTHY")

evaluateAccounts_highOnly(accts, options, nows) ==
  LET results == [ i \in 1..Len(accts) |->
                     [ account |-> accts[i],
                       result  |-> evaluateAccount(accts[i], nows[i][1], nows[i][2]).result ] ]
  IN  IF options.riskOnly
      THEN SelectSeq(results, LAMBDA r : r.result.riskLevel = "HIGH")
      ELSE results

\* nows[i] holds the two readings of the clock of the i-th evaluateAccount
evaluateAccounts(accts, options, nows) ==
  LET results == [ i \in 1..Len(accts) |->
                     [ account |-> accts[i],
                       result  |-> evaluateAccount(accts[i], nows[i][1], nows[i][2]).result ] ]
  IN  IF options.riskOnly
      THEN SelectSeq(results, LAMBDA r : r.result.riskLevel # "HEALTHY")
      ELSE results

groupByRisk_notHealthyAsHigh(accts, nows) ==
  LET results == evaluateAccounts(accts, [riskOnly |-> FALSE], nows)
  IN  [ HIGH    |-> SelectSeq(results, LAMBDA r : r.result.riskLevel # "HEALTHY"),
        MEDIUM  |-> SelectSeq(results, LAMBDA r : r.result.riskLevel = "MEDIUM"),
        HEALTHY |-> SelectSeq(results, LAMBDA r : r.result.riskLevel = "HEALTHY") ]

groupByRisk(accts, nows) ==
  LET results == evaluateAccounts(accts, [riskOnly |-> FALSE], nows)
  IN  [ HIGH    |-> SelectSeq(results, LAMBDA r : r.result.riskLevel = "HIGH"),
        MEDIUM  |-> SelectSeq(results, LAMBDA r : r.result.riskLevel = "MEDIUM"),
        HEALTHY |-> SelectSeq(results, LAMBDA r : r.result.riskLevel = "HEALTHY") ]

\* The accounts of the batch runs: activated WEEKLY users last active at
\* instant 0 or 2, who pass the 14 days of H1 near the end of the clock's range.
BatchAccount ==
  { a \in Account :
      /\ a.activated
      /\ a.usage_freq = "WEEKLY"
      /\ a.billing_status = "ACTIVE"
      /\ ~a.cancel_at_period_end
      /\ a.created_at = <<0>>
      /\ a.last_active_at \in {<<0>>, <<2>>} }

\* arrays of at most MaxBatch accounts, repetitions allowed
BatchInput ==
  UNION { [1..n -> BatchAccount] : n \in 0..MaxBatch }

InitBatch ==
  /\ clock \in (MaxClock - MaxBatch)..MaxClock
  /\ subject \in BatchAccount
  /\ log = <<>>
  /\ rules = RULES_IN_ORDER
  /\ accounts \in BatchInput
  /\ accounts # <<>> => accounts[1] = subject  \* evaluated alone and in the batch
  /\ batch = NULL
  /\ NoService

\* what is kept of the calls of evaluateAccount made for accts
CallsOf(accts, nows) ==
  [ i \in 1..Len(accts) |-> CallOf(accts[i], nows[i][1], nows[i][2]) ]

\* evaluateAccounts filtering the array it was given in place, and taking
\* the rule it returns from the front of the rule list
EvaluateAccounts_inPlace(riskOnly) ==
  \E advance \in [1..Len(accounts) -> 0..MaxAdvance] :
    LET nows == Readings(clock, advance, Len(accounts))
        end  == clock + SumTo(advance, Len(accounts))
        out  == evaluateAccounts(accounts, [riskOnly |-> riskOnly], nows)
    IN  /\ end <= MaxClock
        /\ clock' = end
        /\ batch' = <<[ fn       |-> "evaluateAccounts",
                        input    |-> accounts,
                        riskOnly |-> riskOnly,
                        calls    |-> CallsOf(accounts, nows),
                        out      |-> out ]>>
        /\ accounts' = [ i \in 1..Len(out) |-> out[i].account ]
        /\ rules' = Tail(rules)
        /\ UNCHANGED <<subject, log, serviceVars>>

\* A caller passes its array to evaluateAccounts.
EvaluateAccounts(riskOnly) ==
  \E advance \in [1..Len(accounts) -> 0..MaxAdvance] :
    LET nows == Readings(clock, advance, Len(accounts))
        end  == clock + SumTo(advance, Len(accounts))
    IN  /\ end <= MaxClock
        /\ clock' = end
        /\ batch' = <<[ fn       |-> "evaluateAccounts",
                        input    |-> accounts,
                        riskOnly |-> riskOnly,
                        calls    |-> CallsOf(accounts, nows),
                        out      |-> evaluateAccounts(accounts,
                                       [riskOnly |-> riskOnly], nows) ]>>
        /\ UNCHANGED <<subject, log, rules, accounts, serviceVars>>

\* A caller passes its array to groupByRisk.
GroupByRisk ==
  \E advance \in [1..Len(accounts) -> 0..MaxAdvance] :
    LET nows == Readings(clock, advance, Len(accounts))
        end  == clock + SumTo(advance, Len(accounts))
    IN  /\ end <= MaxClock
        /\ clock' = end
        /\ batch' = <<[ fn       |-> "groupByRisk",
                        input    |-> accounts,
                        riskOnly |-> FALSE,
                        calls    |-> CallsOf(accounts, nows),
                        out      |-> groupByRisk(accounts, nows) ]>>
        /\ UNCHANGED <<subject, log, rules, accounts, serviceVars>>

NextBatch ==
  \/ EvaluateAccount(1)
  \/ \E riskOnly \in BOOLEAN : EvaluateAccounts(riskOnly)
  \/ GroupByRisk

SpecBatch == InitBatch /\ [][NextBatch]_vars

\* ------------------------------------------------------------- AI texts
\* A text is the sequence of its characters.  A literal of the source is
\* kept by its wording, a text the AI wrote by its characters.
Template(s) == [ template |-> s, chars |-> <<>> ]

Generated(cs) == [ template |-> "", chars |-> cs ]

\* n characters that occur in no banned word
Fill(n) == [ i \in 1..n |-> "x" ]

UpperCase ==
  << "A", "B", "C", "D", "E", "F", "G", "H", "I", "J", "K", "L", "M",
     "N", "O", "P", "Q", "R", "S", "T", "U", "V", "W", "X", "Y", "Z" >>

LowerCase ==
  << "a", "b", "c", "d", "e", "f", "g", "h", "i", "j", "k", "l", "m",
     "n", "o", "p", "q", "r", "s", "t", "u", "v", "w", "x", "y", "z" >>

\* String.prototype.toLowerCase
toLowerCase(text) ==
  [ i \in DOMAIN text |->
      IF \E k \in DOMAIN UpperCase : UpperCase[k] = text[i]
      THEN LowerCase[CHOOSE k \in DOMAIN UpperCase : UpperCase[k] = text[i]]
      ELSE text[i] ]

\* String.prototype.includes
includes(text, word) ==
  \E start \in 0..(Len(text) - Len(word)) :
    \A j \in DOMAIN word : text[start + j] = word[j]

BANNED_WORDS ==
  <<
     <<"a", "i">>,
     <<"m", "o", "d", "e", "l">>,
     <<"p", "r", "e", "d", "i", "c", "t", "i", "o", "n">>,
     <<"p", "r", "o", "b", "a", "b", "i", "l", "i", "t", "y">>,
     <<"p", "e", "r", "c", "e", "n", "t", "a", "g", "e">>,
     <<"l", "i", "k", "e", "l", "y">>,
     <<"c", "h", "a", "n", "c", "e">>,
     <<"r", "i", "s", "k", " ", "s", "c", "o", "r", "e">>,
     <<"a", "l", "g", "o", "r", "i", "t", "h", "m">>,
     <<"a", "n", "a", "l", "y", "z", "e">>,
     <<"u", "r", "g", "e", "n", "t">>,
     <<"a", "c", "t", " ", "n", "o", "w">>,
     <<"l", "i", "m", "i", "t", "e", "d", " ", "t", "i", "m", "e">>,
     <<"s", "p", "e", "c", "i", "a", "l", " ", "o", "f", "f", "e", "r">>,
     <<"a", "s", " ", "a", "n", " ", "a", "i">>,
     <<"i", " ", "a", "m", " ", "a", "n", " ", "a", "i">>,
     <<"i", " ", "c", "a", "n", "n", "o", "t">>
  >>

containsBannedWords(text) ==
  LET lowerText == toLowerCase(text)
  IN  \E k \in DOMAIN BANNED_WORDS : includes(lowerText, BANNED_WORDS[k])

\* ------------------------------------------------------- AI generation
\* the bounds of AiOutputSchema
MaxExplanation == 200

MaxMessage == 300

\* A value found in parsed JSON: its type, and its characters if a string.
JsString(cs) == [ type |-> "string", chars |-> cs ]

JsNull == [ type |-> "null", chars |-> <<>> ]

JsUndefined == [ type |-> "undefined", chars |-> <<>> ]

JsNumber == [ type |-> "number", chars |-> <<>> ]

\* What model.generateContent and result.response.text() come to: an
\* exception, no content, content that is not JSON, or content that
\* JSON.parse turns into `parsed`; action is kept by name.
NotAnObject ==
  [ object |-> FALSE, explanation |-> JsUndefined,
    action |-> [ type |-> "undefined", name |-> "" ], message |-> JsUndefined ]

Throws == [ kind |-> "throws", parsed |-> NotAnObject ]

NoContent == [ kind |-> "empty", parsed |-> NotAnObject ]

NotJson == [ kind |-> "notJson", parsed |-> NotAnObject ]

NotCalled == [ kind |-> "notCalled", parsed |-> NotAnObject ]

Json(parsed) == [ kind |-> "json", parsed |-> parsed ]

Obj(explanation, action, message) ==
  [ object      |-> TRUE,
    explanation |-> explanation,
    action      |-> action,
    message     |-> message ]

ActionNamed(name) == [ type |-> "string", name |-> name ]

\* AiOutputSchema.parse succeeds
AiOutputSchema(parsed) ==
  /\ parsed.object
  /\ parsed.explanation.type = "string"
  /\ Len(parsed.explanation.chars) >= 1
  /\ Len(parsed.explanation.chars) <= MaxExplanation
  /\ parsed.action.type = "string"
  /\ parsed.action.name \in {"SEND_MESSAGE", "DO_NOTHING"}
  /\ \/ parsed.message.type = "null"
     \/ /\ parsed.message.type = "string"
        /\ Len(parsed.message.chars) <= MaxMessage

\* FALLBACK_TEMPLATES, called without context
FALLBACK_TEMPLATES ==
  [ SEND_MESSAGE |->
      [ explanation |-> Template("User has become inactive after initial engagement."),
        action      |-> "SEND_MESSAGE",
        message     |-> <<Template("Hey - noticed you haven't used the product in a bit. Most teams find it useful once they do. Happy to help if useful.")>> ],
    PAYMENT_ISSUE |->
      [ explanation |-> Template("Payment failed on last invoice."),
        action      |-> "SEND_MESSAGE",
        message     |-> <<Template("Hey - looks like your last payment didn't go through. Just wanted to flag it before access is affected.")>> ],
    PRE_CANCEL |->
      [ explanation |-> Template("User has scheduled cancellation."),
        action      |-> "SEND_MESSAGE",
        message     |-> <<Template("Hey - noticed you're planning to cancel. Totally understand if timing isn't right. Let me know if there's anything I can help with before then.")>> ],
    LOW_ENGAGEMENT |->
      [ explanation |-> Template("Low engagement, has not used core feature."),
        action      |-> "SEND_MESSAGE",
        message     |-> <<Template("Hey - noticed you haven't dug into the main features yet. Happy to walk you through it if useful.")>> ],
    DO_NOTHING |->
      [ explanation |-> Template("User is active and showing healthy usage."),
        action      |-> "DO_NOTHING",
        message     |-> NULL ] ]

getFallback(ruleId) ==
  CASE ruleId = "H4" -> FALLBACK_TEMPLATES.PRE_CANCEL
    [] ruleId = "H3" -> FALLBACK_TEMPLATES.PAYMENT_ISSUE
    [] ruleId \in {"H2", "H1"} -> FALLBACK_TEMPLATES.SEND_MESSAGE
    [] ruleId = "M1" -> FALLBACK_TEMPLATES.LOW_ENGAGEMENT
    [] OTHER -> FALLBACK_TEMPLATES.DO_NOTHING

\* the GenerationResult built from getFallback(ruleId)
FallbackResult(ruleId) ==
  LET fallback == getFallback(ruleId)
  IN  [ explanation  |-> fallback.explanation,
        action       |-> fallback.action,
        message      |-> fallback.message,
        fallbackUsed |-> TRUE ]

\* how the promise of an async function settles
Resolved(value) == [ status |-> "resolved", value |-> value ]

Rejected == [ status |-> "rejected", value |-> FallbackResult("G1") ]

\* the condition of the first if: the AI is not asked
aiSkipped(ruleResult, options) ==
  options.skipAi \/ ~genAI \/ ruleResult.riskLevel = "HEALTHY"

\* `${validated.explanation} ${validated.message || ''}`
allTextOf(validated) ==
  validated.explanation.chars \o <<" ">> \o
    (IF validated.message.type = "null" THEN <<>> ELSE validated.message.chars)

\* the GenerationResult built from the validated output
ValidatedResult(validated) ==
  [ explanation  |-> Generated(validated.explanation.chars),
    action       |-> validated.action.name,
    message      |-> IF validated.message.type = "null"
                     THEN NULL
                     ELSE <<Generated(validated.message.chars)>>,
    fallbackUsed |-> FALSE ]

\* generateRecommendation without its try/catch
generateRecommendation_noCatch(ruleResult, options, reply) ==
  IF aiSkipped(ruleResult, options)
  THEN Resolved(FallbackResult(ruleResult.ruleId))
  ELSE IF reply.kind # "json" \/ ~AiOutputSchema(reply.parsed)
       THEN Rejected
       ELSE IF containsBannedWords(allTextOf(reply.parsed))
            THEN Resolved(FallbackResult(ruleResult.ruleId))
            ELSE Resolved(ValidatedResult(reply.parsed))

\* generateRecommendation(_account, ruleResult, options), `reply` being what
\* the AI comes back with if it is asked
generateRecommendation(ruleResult, options, reply) ==
  IF aiSkipped(ruleResult, options)
  THEN Resolved(FallbackResult(ruleResult.ruleId))
  ELSE IF reply.kind = "throws"            \* generateContent or text() throws
            \/ reply.kind = "empty"       \* if (!content) throw
            \/ reply.kind = "notJson"     \* JSON.parse throws
            \/ ~AiOutputSchema(reply.parsed)  \* AiOutputSchema.parse throws
       THEN Resolved(FallbackResult(ruleResult.ruleId))   \* the catch block
       ELSE IF containsBannedWords(allTextOf(reply.parsed))
            THEN Resolved(FallbackResult(ruleResult.ruleId))
            ELSE Resolved(ValidatedResult(reply.parsed))

\* Replies of the AI: one of each kind the code tells apart, with texts at
\* the bounds of the schema and banned words in each place they can stand.
Ok == <<"o", "k">>

Hi == <<"h", "i">>

ReplyFields ==
  { \* valid output
    << JsString(Ok), ActionNamed("SEND_MESSAGE"), JsString(Hi) >>,
    << JsString(Ok), ActionNamed("DO_NOTHING"), JsNull >>,
    << JsString(Ok), ActionNamed("SEND_MESSAGE"), JsString(<<>>) >>,
    << JsString(Ok \o Fill(MaxExplanation - 2)), ActionNamed("SEND_MESSAGE"),
       JsString(Hi \o Fill(MaxMessage - 2)) >>,
    << JsString(<<"r", "i", "s", "k">>), ActionNamed("DO_NOTHING"), JsNull >>,
    << JsString(<<"a">>), ActionNamed("SEND_MESSAGE"), JsString(<<"i">>) >>,
    \* output the schema rejects
    << JsString(<<>>), ActionNamed("SEND_MESSAGE"), JsString(Hi) >>,
    << JsString(Ok \o Fill(MaxExplanation - 1)), ActionNamed("SEND_MESSAGE"),
       JsString(Hi) >>,
    << JsNumber, ActionNamed("SEND_MESSAGE"), JsString(Hi) >>,
    << JsUndefined, ActionNamed("SEND_MESSAGE"), JsString(Hi) >>,
    << JsString(Ok), ActionNamed("ESCALATE"), JsString(Hi) >>,
    << JsString(Ok), [ type |-> "undefined", name |-> "" ], JsString(Hi) >>,
    << JsString(Ok), ActionNamed("SEND_MESSAGE"), JsUndefined >>,
    << JsString(Ok), ActionNamed("SEND_MESSAGE"),
       JsString(Hi \o Fill(MaxMessage - 1)) >>,
    \* banned words: in the explanation, in the message, across the two
    << JsString(<<"A", "I">>), ActionNamed("SEND_MESSAGE"), JsString(Hi) >>,
    << JsString(<<"s", "a", "i", "d">>), ActionNamed("DO_NOTHING"), JsNull >>,
    << JsString(Ok), ActionNamed("SEND_MESSAGE"),
       JsString(<<"U", "r", "g", "e", "n", "t">>) >>,
    << JsString(<<"r", "i", "s", "k">>), ActionNamed("SEND_MESSAGE"),
       JsString(<<"s", "c", "o", "r", "e">>) >> }

AiReply ==
  { Throws, NoContent, NotJson, Json(NotAnObject) }
    \cup { Json(Obj(f[1], f[2], f[3])) : f \in ReplyFields }

\* the accounts whose RuleResult is handed to generateRecommendation
GenAccount ==
  { a \in Account :
      /\ a.usage_freq = "DAILY"
      /\ a.billing_status \in {"ACTIVE", "PAYMENT_FAILED"}
      /\ a.created_at = <<0>>
      /\ a.last_active_at = <<0>> }

\* the instants at which they are evaluated: at once, past the 4 days of
\* M1, past the 7 days of H2 and H1
GenClock == { 0, 5 * TicksPerDay, 8 * TicksPerDay }

InitGen ==
  /\ clock \in GenClock
  /\ subject \in GenAccount
  /\ rules = RULES_IN_ORDER
  /\ log = << CallOf(subject, clock, clock) >>
  /\ NoBatch
  /\ genAI \in BOOLEAN
  /\ gen = NULL
  /\ recs = NULL
  /\ NoDigest
  /\ NoBilling

\* A caller passes the account it evaluated and the RuleResult to
\* generateRecommendation, and the promise settles.
GenerateRecommendation(skipAi) ==
  /\ Len(log) > 0
  /\ LET call       == log[Len(log)]
         options    == [ skipAi |-> skipAi ]
     IN  \E reply \in IF aiSkipped(call.result, options)
                      THEN {NotCalled} ELSE AiReply :
           gen' = << [ account    |-> call.account,
                       ruleResult |-> call.result,
                       options    |-> options,
                       reply      |-> reply,
                       settled    |-> generateRecommendation(call.result,
                                        options, reply) ] >>
  /\ UNCHANGED <<engineVars, genAI, recs, digestVars, billingVars>>

NextGen == \E skipAi \in BOOLEAN : GenerateRecommendation(skipAi)

SpecGen == InitGen /\ [][NextGen]_vars

\* The replies followed in calls made for whole arrays: an exception, valid
\* output of either action, output with a banned word.
ArrayReply ==
  { Throws,
    Json(Obj(JsString(Ok), ActionNamed("SEND_MESSAGE"), JsString(Hi))),
    Json(Obj(JsString(Ok), ActionNamed("DO_NOTHING"), JsNull)),
    Json(Obj(JsString(<<"A", "I">>), ActionNamed("SEND_MESSAGE"), JsString(Hi))) }

\* the instant of the runs on arrays: the accounts of BatchAccount are then
\* HIGH, MEDIUM or HEALTHY
ArrayClock == 15 * TicksPerDay

\* evaluateAccounts has returned, for an array of BatchInput
InitAi ==
  /\ clock = ArrayClock
  /\ subject \in BatchAccount
  /\ log = <<>>
  /\ rules = RULES_IN_ORDER
  /\ accounts \in BatchInput
  /\ accounts # <<>> => accounts[1] = subject
  /\ \E riskOnly \in BOOLEAN :
       LET nows == [ i \in 1..Len(accounts) |-> << clock, clock >> ]
       IN  batch = << [ fn       |-> "evaluateAccounts",
                        input    |-> accounts,
                        riskOnly |-> riskOnly,
                        calls    |-> CallsOf(accounts, nows),
                        out      |-> evaluateAccounts(accounts,
                                       [riskOnly |-> riskOnly], nows) ] >>
  /\ genAI \in BOOLEAN
  /\ gen = NULL
  /\ recs = NULL
  /\ NoDigest
  /\ NoBilling

\* generateRecommendations is called with what evaluateAccounts returned:
\* one generateRecommendation is started per entry.
GenerateRecommendations(skipAi) ==
  /\ batch # NULL
  /\ batch[1].fn = "evaluateAccounts"
  /\ IF recs = NULL THEN TRUE ELSE recs[1].status # "pending"
  /\ recs' = << [ options |-> [ skipAi |-> skipAi ],
                  input   |-> batch[1].out,
                  out     |-> [ i \in DOMAIN batch[1].out |-> NULL ],
                  status  |-> IF batch[1].out = <<>>
                              THEN "resolved" ELSE "pending" ] >>
  /\ UNCHANGED <<engineVars, genAI, gen, digestVars, billingVars>>

\* The generateRecommendation of entry i settles; Promise.all resolves when
\* the last one has resolved and rejects when one rejects.
Recommend(i) ==
  /\ recs # NULL
  /\ recs[1].status = "pending"
  /\ i \in DOMAIN recs[1].input
  /\ recs[1].out[i] = NULL
  /\ LET r     == recs[1]
         entry == r.input[i]
     IN  \E reply \in IF aiSkipped(entry.result, r.options)
                      THEN {NotCalled} ELSE ArrayReply :
           LET settled == generateRecommendation(entry.result, r.options, reply)
               out     == [ r.out EXCEPT ![i] =
                              << [ account        |-> entry.account,
                                   result         |-> entry.result,
                                   recommendation |-> settled.value ] >> ]
           IN  recs' =
                 IF settled.status = "rejected"
                 THEN << [ r EXCEPT !.status = "rejected" ] >>
                 ELSE << [ r EXCEPT !.out = out,
                                    !.status =
                                      IF \A k \in DOMAIN out : out[k] # NULL
                                      THEN "resolved" ELSE "pending" ] >>
  /\ UNCHANGED <<engineVars, genAI, gen, digestVars, billingVars>>

NextAi ==
  \/ \E skipAi \in BOOLEAN : GenerateRecommendations(skipAi)
  \/ \E i \in 1..MaxBatch : Recommend(i)

SpecAi == InitAi /\ [][NextAi]_vars

\* -------------------------------------------------------- weekly digest
FounderId == {"f1"}

\* generateRecommendations(accountsWithRules) once every promise has
\* resolved; replies[i] is what the AI comes back with for entry i
generateRecommendations(accountsWithRules, options, replies) ==
  [ i \in DOMAIN accountsWithRules |->
      [ account        |-> accountsWithRules[i].account,
        result         |-> accountsWithRules[i].result,
        recommendation |-> generateRecommendation(accountsWithRules[i].result,
                             options, replies[i]).value ] ]

\* Array.prototype.sort with riskOrder HIGH 0, MEDIUM 1, HEALTHY 2: stable
sortByRisk(customers) ==
  SelectSeq(customers, LAMBDA c : c.result.riskLevel = "HIGH")
    \o SelectSeq(customers, LAMBDA c : c.result.riskLevel = "MEDIUM")
    \o SelectSeq(customers, LAMBDA c : c.result.riskLevel = "HEALTHY")

generateSubject(riskCount) ==
  IF riskCount = 0 THEN "All clear this week - no at-risk accounts"
  ELSE IF riskCount = 1 THEN "1 account to review this week"
  ELSE "N accounts to review this week"

\* the positions of the rows of accounts the query of the digest returns
RECURSIVE rowsOf(_, _)
rowsOf(founderId, i) ==
  IF i > Len(accountRows)
  THEN <<>>
  ELSE IF /\ accountRows[i].founder_id = founderId
          /\ accountRows[i].fields.billing_status # "CANCELED"
       THEN <<i>> \o rowsOf(founderId, i + 1)
       ELSE rowsOf(founderId, i + 1)

\* what a call of sendWeeklyDigest returns
DigestResult(success, error, riskCount, accountCount, emailId) ==
  [ success      |-> success,
    error        |-> error,
    riskCount    |-> riskCount,
    accountCount |-> accountCount,
    emailId      |-> emailId ]

\* what a call of sendWeeklyDigest returns and does: the email Resend
\* accepted and the rows it inserts, in the order of the inserts
DigestRun(result, emails, digests, decisions) ==
  [ result    |-> result,
    emails    |-> emails,
    digests   |-> digests,
    decisions |-> decisions ]

\* the decision_logs rows of the customers at risk
decisionsOf(customers) ==
  LET atRisk == SelectSeq(customers, LAMBDA c : c.result.riskLevel # "HEALTHY")
  IN  [ k \in DOMAIN atRisk |->
          [ account_id    |-> atRisk[k].account.id,
            rule_id       |-> atRisk[k].result.ruleId,
            risk_level    |-> atRisk[k].result.riskLevel,
            action        |-> atRisk[k].recommendation.action,
            fallback_used |-> atRisk[k].recommendation.fallbackUsed ] ]

\* the customers of the digest of founderId: the rows evaluated, with
\* their recommendations, sorted
customersOf(founderId, now, replies) ==
  LET rows      == rowsOf(founderId, 1)
      fetched   == [ k \in DOMAIN rows |-> accountRows[rows[k]].fields ]
      nows      == [ k \in DOMAIN rows |-> << now, now >> ]
      evaluated == evaluateAccounts(fetched, [riskOnly |-> FALSE], nows)
      withRecs  == generateRecommendations(evaluated, [skipAi |-> FALSE], replies)
  IN  sortByRisk([ k \in DOMAIN rows |->
                     [ account        |-> [ id     |-> rows[k],
                                            fields |-> withRecs[k].account ],
                       result         |-> withRecs[k].result,
                       recommendation |-> withRecs[k].recommendation ] ])

\* sendWeeklyDigest writing its logs before it sends the email
sendWeeklyDigest_logFirst(founderId, now, fault, replies) ==
  LET rows      == rowsOf(founderId, 1)
      customers == customersOf(founderId, now, replies)
      riskCount == Len(SelectSeq(customers, LAMBDA c : c.result.riskLevel # "HEALTHY"))
      digests   == << [ founder_id    |-> founderId,
                        account_count |-> Len(rows),
                        risk_count    |-> riskCount ] >>
  IN  IF fault = "founderError" \/ founderId \notin founders
      THEN DigestRun(DigestResult(FALSE, "Founder not found", 0, 0, NULL),
                     <<>>, <<>>, <<>>)
      ELSE IF fault = "accountsError"
      THEN DigestRun(DigestResult(FALSE, "accountsError.message", 0, 0, NULL),
                     <<>>, <<>>, <<>>)
      ELSE IF rows = <<>>
      THEN DigestRun(DigestResult(TRUE, "", 0, 0, NULL), <<>>, <<>>, <<>>)
      ELSE IF fault = "emailThrows"
      THEN DigestRun(DigestResult(FALSE, "error.message", 0, 0, NULL),
                     <<>>, digests, decisionsOf(customers))
      ELSE IF fault = "emailError"
      THEN DigestRun(DigestResult(FALSE, "emailError.message", riskCount,
                                  Len(rows), NULL),
                     <<>>, digests, decisionsOf(customers))
      ELSE DigestRun(DigestResult(TRUE, "", riskCount, Len(rows), <<"emailData.id">>),
                     << [ to        |-> founderId,
                          subject   |-> generateSubject(riskCount),
                          customers |-> Len(customers) ] >>,
                     digests, decisionsOf(customers))

\* sendWeeklyDigest(founderId) at instant `now`.  fault is what goes wrong
\* in the services it awaits: nothing, the founder query or the accounts
\* query answering with an error, Resend answering with an error, Resend
\* throwing.  The function returns at the first fault it meets.
sendWeeklyDigest(founderId, now, fault, replies) ==
  LET rows      == rowsOf(founderId, 1)
      customers == customersOf(founderId, now, replies)
      riskCount == Len(SelectSeq(customers, LAMBDA c : c.result.riskLevel # "HEALTHY"))
  IN  IF fault = "founderError" \/ founderId \notin founders
      THEN DigestRun(DigestResult(FALSE, "Founder not found", 0, 0, NULL),
                     <<>>, <<>>, <<>>)
      ELSE IF fault = "accountsError"
      THEN DigestRun(DigestResult(FALSE, "accountsError.message", 0, 0, NULL),
                     <<>>, <<>>, <<>>)
      ELSE IF rows = <<>>
      THEN DigestRun(DigestResult(TRUE, "", 0, 0, NULL), <<>>, <<>>, <<>>)
      ELSE IF fault = "emailThrows"                      \* the catch block
      THEN DigestRun(DigestResult(FALSE, "error.message", 0, 0, NULL),
                     <<>>, <<>>, <<>>)
      ELSE IF fault = "emailError"
      THEN DigestRun(DigestResult(FALSE, "emailError.message", riskCount,
                                  Len(rows), NULL),
                     <<>>, <<>>, <<>>)
      ELSE DigestRun(DigestResult(TRUE, "", riskCount, Len(rows), <<"emailData.id">>),
                     << [ to        |-> founderId,
                          subject   |-> generateSubject(riskCount),
                          customers |-> Len(customers) ] >>,
                     << [ founder_id    |-> founderId,
                          account_count |-> Len(rows),
                          risk_count    |-> riskCount ] >>,
                     decisionsOf(customers))

\* The rows of table accounts: the accounts of BatchAccount and one account
\* whose subscription has ended.
DigestAccount ==
  BatchAccount \cup
    { [ a EXCEPT !.billing_status = "CANCELED" ] :
        a \in { b \in BatchAccount : ~b.core_used /\ b.last_active_at = <<0>> } }

DigestRows ==
  UNION { [ 1..n -> [ founder_id : FounderId, fields : DigestAccount ] ] :
            n \in 0..MaxBatch }

DigestFault ==
  { "none", "founderError", "accountsError", "emailError", "emailThrows" }

InitDigest ==
  /\ clock = ArrayClock
  /\ subject = CHOOSE a \in BatchAccount : TRUE
  /\ log = <<>>
  /\ rules = RULES_IN_ORDER
  /\ NoBatch
  /\ genAI \in BOOLEAN
  /\ gen = NULL
  /\ recs = NULL
  /\ founders \in SUBSET FounderId
  /\ accountRows \in DigestRows
  /\ outbox = <<>>
  /\ digest_logs = <<>>
  /\ decision_logs = <<>>
  /\ answer = NULL
  /\ NoBilling

\* c.json(body, status)
Response(status, error, riskCount, accountCount, message) ==
  [ status       |-> status,
    error        |-> error,
    riskCount    |-> riskCount,
    accountCount |-> accountCount,
    message      |-> message ]

\* the handler of POST /api/trigger/weekly-email, given what
\* sendWeeklyDigest returned
triggerResponse(result) ==
  IF ~result.success
  THEN Response(500, IF result.error # "" THEN result.error
                     ELSE "Failed to send email", 0, 0, "")
  ELSE Response(200, "", result.riskCount, result.accountCount,
                IF result.riskCount > 0
                THEN "Report sent with N at-risk accounts"
                ELSE "No at-risk accounts found, no email sent")

\* the replies the AI may give for the rows of a digest
DigestReplies(founderId) ==
  IF genAI THEN [ DOMAIN rowsOf(founderId, 1) -> ArrayReply ]
           ELSE { [ k \in DOMAIN rowsOf(founderId, 1) |-> NotCalled ] }

\* POST /api/trigger/weekly-email without a session: 401
TriggerUnauthorized ==
  /\ answer = NULL
  /\ answer' = << [ session  |-> NULL,
                    fault    |-> "none",
                    run      |-> DigestRun(DigestResult(FALSE, "", 0, 0, NULL),
                                           <<>>, <<>>, <<>>),
                    response |-> Response(401, "Unauthorized", 0, 0, "") ] >>
  /\ UNCHANGED <<engineVars, aiVars, founders, accountRows, outbox,
                 digest_logs, decision_logs, billingVars>>

\* POST /api/trigger/weekly-email with the session of founderId: the
\* handler awaits sendWeeklyDigest and answers.
TriggerWeeklyEmail(founderId) ==
  /\ answer = NULL
  /\ \E fault \in DigestFault, replies \in DigestReplies(founderId) :
       LET run == sendWeeklyDigest(founderId, clock, fault, replies)
       IN  /\ outbox' = outbox \o run.emails
           /\ digest_logs' = digest_logs \o run.digests
           /\ decision_logs' = decision_logs \o run.decisions
           /\ answer' = << [ session  |-> <<founderId>>,
                             fault    |-> fault,
                             run      |-> run,
                             response |-> triggerResponse(run.result) ] >>
  /\ UNCHANGED <<engineVars, aiVars, founders, accountRows, billingVars>>

NextDigest ==
  \/ TriggerUnauthorized
  \/ \E founderId \in FounderId : TriggerWeeklyEmail(founderId)

SpecDigest == InitDigest /\ [][NextDigest]_vars

\* --------------------------------------------------- sendAllWeeklyDigests
\* the founders of the cron run and of the account handlers
AllFounderId == {"f1", "f2"}

\* a stored credential or null
Credential(s) == {NULL, <<s>>}

\* the rows of table founders before the cron run: any mix of credentials
CronFounder ==
  { [ NewFounder EXCEPT !.stripe_api_key = k, !.stripe_access_token = t ] :
      k \in Credential("sk_live"), t \in Credential("tok") }

\* the accounts of the cron run
CronAccount == { a \in BatchAccount : a.core_used }

CronRows ==
  UNION { [ 1..n -> [ founder_id : AllFounderId, fields : CronAccount ] ] :
            n \in 0..MaxBatch }

\* the orders in which a query may return the rows of a set of ids
OrdersOf(S) ==
  { o \in [ 1..Cardinality(S) -> S ] :
      \A i, j \in 1..Cardinality(S) : o[i] = o[j] => i = j }

\* founders.getAllActiveFounders: the founders holding either credential
getAllActiveFounders ==
  { f \in founders :
      founderRows[f].stripe_access_token # NULL
        \/ founderRows[f].stripe_api_key # NULL }

\* the ids the query of sendAllWeeklyDigests selects:
\* .not('stripe_access_token', 'is', null)
selectFounders ==
  { f \in founders : founderRows[f].stripe_access_token # NULL }

\* what sendAllWeeklyDigests returns
SendAllResult(total, results) ==
  [ total      |-> total,
    successful |-> Len(SelectSeq(results, LAMBDA r : r.success)),
    failed     |-> Len(SelectSeq(results, LAMBDA r : ~r.success)),
    results    |-> results ]

InitSendAll ==
  /\ clock = ArrayClock
  /\ subject = CHOOSE a \in BatchAccount : TRUE
  /\ log = <<>>
  /\ rules = RULES_IN_ORDER
  /\ NoBatch
  /\ genAI = FALSE
  /\ gen = NULL
  /\ recs = NULL
  /\ founders \in SUBSET AllFounderId
  /\ founderRows \in [ founders -> CronFounder ]
  /\ accountRows \in CronRows
  /\ outbox = <<>>
  /\ digest_logs = <<>>
  /\ decision_logs = <<>>
  /\ answer = NULL
  /\ stripe = NoStripe
  /\ sendAll = NULL
  /\ sync = NULL
  /\ upsert = NULL
  /\ event = NULL
  /\ toggles = <<>>

\* founders.disconnectStripe before the run: the OAuth columns become null,
\* stripe_api_key stays
DisconnectStripe(id) ==
  /\ sendAll = NULL
  /\ id \in founders
  /\ founderRows[id].stripe_access_token # NULL
  /\ founderRows' =
       [ founderRows EXCEPT ![id].stripe_access_token = NULL,
                            ![id].stripe_refresh_token = NULL ]
  /\ UNCHANGED <<engineVars, aiVars, digestVars, stripe, sendAll, sync,
                 upsert, event, toggles>>

\* sendAllWeeklyDigests up to its loop: the query of the founders.  On an
\* error it returns the empty summary at once.
StartSendAll(queryFails) ==
  /\ sendAll = NULL
  /\ IF queryFails
     THEN sendAll' = << [ selected |-> <<>>,
                          failed   |-> TRUE,
                          results  |-> <<>>,
                          returned |-> << SendAllResult(0, <<>>) >> ] >>
     ELSE \E order \in OrdersOf(selectFounders) :
            sendAll' = << [ selected |-> order,
                            failed   |-> FALSE,
                            results  |-> <<>>,
                            returned |-> NULL ] >>
  /\ UNCHANGED <<engineVars, aiVars, digestVars, founderRows, stripe, sync,
                 upsert, event, toggles>>

\* the loop stops at the first founder whose digest failed
SendNext_stopOnFailure(fault) ==
  /\ sendAll # NULL
  /\ sendAll[1].returned = NULL
  /\ Len(sendAll[1].results) < Len(sendAll[1].selected)
  /\ LET founderId == sendAll[1].selected[Len(sendAll[1].results) + 1]
     IN  \E replies \in DigestReplies(founderId) :
         \E run \in { sendWeeklyDigest(founderId, clock, fault, replies) } :
           LET results == Append(sendAll[1].results,
                                 [ founderId |-> founderId,
                                   success   |-> run.result.success,
                                   error     |-> run.result.error ])
           IN  /\ outbox' = outbox \o run.emails
               /\ digest_logs' = digest_logs \o run.digests
               /\ decision_logs' = decision_logs \o run.decisions
               /\ sendAll' =
                    IF run.result.success
                    THEN << [ sendAll[1] EXCEPT !.results = results ] >>
                    ELSE << [ sendAll[1] EXCEPT
                                !.results = results,
                                !.returned =
                                   << SendAllResult(Len(sendAll[1].selected),
                                                    results) >> ] >>
  /\ UNCHANGED <<engineVars, aiVars, founders, accountRows, answer,
                 founderRows, stripe, sync,
                 upsert, event, toggles>>

\* one turn of the loop: sendWeeklyDigest for the next founder, in which
\* `fault` goes wrong; its outcome is pushed onto results
SendNext(fault) ==
  /\ sendAll # NULL
  /\ sendAll[1].returned = NULL
  /\ Len(sendAll[1].results) < Len(sendAll[1].selected)
  /\ LET founderId == sendAll[1].selected[Len(sendAll[1].results) + 1]
     IN  \E replies \in DigestReplies(founderId) :
         \E run \in { sendWeeklyDigest(founderId, clock, fault, replies) } :
               /\ outbox' = outbox \o run.emails
               /\ digest_logs' = digest_logs \o run.digests
               /\ decision_logs' = decision_logs \o run.decisions
               /\ sendAll' =
                    << [ sendAll[1] EXCEPT
                           !.results = Append(@,
                              [ founderId |-> founderId,
                                success   |-> run.result.success,
                                error     |-> run.result.error ]) ] >>
  /\ UNCHANGED <<engineVars, aiVars, founders, accountRows, answer,
                 founderRows, stripe, sync,
                 upsert, event, toggles>>

\* the loop is over: the summary is returned
FinishSendAll ==
  /\ sendAll # NULL
  /\ sendAll[1].returned = NULL
  /\ Len(sendAll[1].results) = Len(sendAll[1].selected)
  /\ sendAll' =
       << [ sendAll[1] EXCEPT
              !.returned = << SendAllResult(Len(sendAll[1].selected),
                                            sendAll[1].results) >> ] >>
  /\ UNCHANGED <<engineVars, aiVars, digestVars, founderRows, stripe, sync,
                 upsert, event, toggles>>

NextSendAll ==
  \/ \E id \in AllFounderId : DisconnectStripe(id)
  \/ \E queryFails \in BOOLEAN : StartSendAll(queryFails)
  \/ \E fault \in DigestFault : SendNext(fault)
  \/ FinishSendAll

\* Every awaited promise of the loop settles (sendWeeklyDigest catches what
\* it awaits, the 100 ms timer fires), so a started run does not stop in
\* the middle of the loop.  A turn is due in the same states whatever goes
\* wrong in it, and a run has finitely many turns, so weak fairness of the
\* turns with one fault says the same as weak fairness of all turns.
SpecSendAll ==
  /\ InitSendAll
  /\ [][NextSendAll]_vars
  /\ WF_vars(SendNext("founderError"))
  /\ WF_vars(FinishSendAll)


\* -------------------------------------------------------- syncBillingData
\* the statuses of a Stripe subscription; the last two are among those
\* normalizeBillingStatus has no case for
SubscriptionStatus ==
  { "active", "trialing", "past_due", "unpaid", "canceled",
    "incomplete_expired", "incomplete", "paused" }

\* the ids of the subscriptions, by position in the list
SubscriptionIds == <<"sub_1", "sub_2", "sub_3">>

\* what the sync reads of a subscription (its id apart)
Subscription ==
  [ status               : SubscriptionStatus,
    cancel_at_period_end : BOOLEAN,
    customer_deleted     : BOOLEAN,
    created              : {0} ]

\* the lists subscriptions.list may return
StripeSubscriptions ==
  UNION { [ 1..n -> Subscription ] : n \in 0..MaxSubs }

normalizeBillingStatus_statusFirst(subscription) ==
  CASE subscription.status \in {"active", "trialing"}             -> "ACTIVE"
    [] subscription.status \in {"past_due", "unpaid"}             -> "PAYMENT_FAILED"
    [] subscription.status \in {"canceled", "incomplete_expired"} -> "CANCELED"
    [] subscription.cancel_at_period_end                          -> "CANCELING"
    [] OTHER                                                      -> "PAYMENT_FAILED"

\* normalizeBillingStatus, the same in billing.ts and audit.ts
normalizeBillingStatus(subscription) ==
  IF subscription.cancel_at_period_end THEN "CANCELING"
  ELSE CASE subscription.status \in {"active", "trialing"}             -> "ACTIVE"
         [] subscription.status \in {"past_due", "unpaid"}             -> "PAYMENT_FAILED"
         [] subscription.status \in {"canceled", "incomplete_expired"} -> "CANCELED"
         [] OTHER                                                      -> "PAYMENT_FAILED"

\* the usage columns of an account the billing data creates: never active,
\* not activated, WEEKLY
NewAccountFields(subscription, created_at) ==
  [ activated            |-> FALSE,
    core_used            |-> FALSE,
    usage_freq           |-> "WEEKLY",
    billing_status       |-> normalizeBillingStatus(subscription),
    cancel_at_period_end |-> subscription.cancel_at_period_end,
    created_at           |-> <<created_at>>,
    last_active_at       |-> NULL ]

\* the position of the row of table accounts with this subscription id,
\* 0 when there is none
RowOf(rows, id) ==
  IF \E k \in DOMAIN rows : rows[k].stripe_subscription_id = id
  THEN CHOOSE k \in DOMAIN rows :
         /\ rows[k].stripe_subscription_id = id
         /\ \A j \in 1..(k - 1) : rows[j].stripe_subscription_id # id
  ELSE 0

\* supabase.from('accounts').upsert(payload, {onConflict:
\* 'stripe_subscription_id'}): on a conflict the columns of the payload are
\* written and the others are kept; otherwise a row is inserted, whose
\* other columns take the values a new account has.
upsertRow(rows, founderId, id, subscription, now) ==
  LET k == RowOf(rows, id)
  IN  IF k # 0
      THEN [ rows EXCEPT
               ![k].founder_id = founderId,
               ![k].fields.billing_status = normalizeBillingStatus(subscription),
               ![k].fields.cancel_at_period_end =
                  subscription.cancel_at_period_end ]
      ELSE Append(rows, [ founder_id             |-> founderId,
                          stripe_subscription_id |-> id,
                          fields |-> NewAccountFields(subscription, now) ])

\* the loop of syncBillingData over subscriptions k.. of the list: deleted
\* customers are skipped, an upsert that fails (those of `failing`) is
\* logged and the loop goes on
RECURSIVE syncRows(_, _, _, _, _, _)
syncRows(rows, founderId, subscriptions, k, failing, now) ==
  IF k > Len(subscriptions) THEN rows
  ELSE syncRows(IF subscriptions[k].customer_deleted \/ k \in failing
                THEN rows
                ELSE upsertRow(rows, founderId, SubscriptionIds[k],
                               subscriptions[k], now),
                founderId, subscriptions, k + 1, failing, now)

\* fetchAccountsFromStripe of audit.ts: the in-memory accounts of the
\* subscriptions k.. of the list
RECURSIVE fetchAccountsFromStripe(_, _)
fetchAccountsFromStripe(subscriptions, k) ==
  IF k > Len(subscriptions) THEN <<>>
  ELSE (IF subscriptions[k].customer_deleted THEN <<>>
        ELSE << NewAccountFields(subscriptions[k], subscriptions[k].created) >>)
       \o fetchAccountsFromStripe(subscriptions, k + 1)

\* how the token refresh may go: the founder query fails, oauth.token
\* throws, answers without access_token, answers with a token (and a new
\* refresh token or not), or the update of the founder fails afterwards
RefreshReply ==
  { "fetchError", "throws", "noAccessToken", "token", "tokenRotated",
    "tokenUpdateFails" }

\* refreshStripeToken(founderId): the token it returns (or null) and table
\* founders after it
refreshStripeToken(founderId, reply) ==
  LET none == [ token |-> NULL, rows |-> founderRows ]
  IN  IF reply = "fetchError" \/ founderId \notin founders THEN none
      ELSE IF founderRows[founderId].stripe_refresh_token = NULL THEN none
      ELSE IF ~stripe.configured THEN none
      ELSE IF reply \in {"throws", "noAccessToken"} THEN none
      ELSE [ token |-> <<"tok_new">>,
             rows  |->
               IF reply = "tokenUpdateFails" THEN founderRows
               ELSE IF reply = "tokenRotated"
               THEN [ founderRows EXCEPT
                        ![founderId].stripe_access_token = <<"tok_new">>,
                        ![founderId].stripe_refresh_token = <<"rt_new">> ]
               ELSE [ founderRows EXCEPT
                        ![founderId].stripe_access_token = <<"tok_new">> ] ]

\* getValidAccessToken(founderId): the API key first, then the access
\* token, then a refresh
getValidAccessToken(founderId, reply) ==
  IF reply = "fetchError" \/ founderId \notin founders
  THEN [ token |-> NULL, rows |-> founderRows ]
  ELSE IF founderRows[founderId].stripe_api_key # NULL
  THEN [ token |-> founderRows[founderId].stripe_api_key, rows |-> founderRows ]
  ELSE IF founderRows[founderId].stripe_access_token # NULL
  THEN [ token |-> founderRows[founderId].stripe_access_token,
         rows  |-> founderRows ]
  ELSE refreshStripeToken(founderId, reply)

\* the rows of table founders of the sync
SyncFounder ==
  { [ NewFounder EXCEPT !.stripe_api_key = k, !.stripe_access_token = t,
                        !.stripe_refresh_token = r ] :
      k \in Credential("sk_live"), t \in Credential("tok"),
      r \in Credential("rt") }

\* an account an earlier sync created for the first subscription, in use
\* since
SyncedRow ==
  [ founder_id             |-> "f1",
    stripe_subscription_id |-> SubscriptionIds[1],
    fields |-> [ activated            |-> TRUE,
                 core_used            |-> TRUE,
                 usage_freq           |-> "DAILY",
                 billing_status       |-> "ACTIVE",
                 cancel_at_period_end |-> FALSE,
                 created_at           |-> <<0>>,
                 last_active_at       |-> <<2>> ] ]

InitSync ==
  /\ clock = ArrayClock
  /\ subject = CHOOSE a \in BatchAccount : TRUE
  /\ log = <<>>
  /\ rules = RULES_IN_ORDER
  /\ NoBatch
  /\ genAI = FALSE
  /\ gen = NULL
  /\ recs = NULL
  /\ founders = FounderId
  /\ founderRows \in [ founders -> SyncFounder ]
  /\ accountRows \in { <<>>, << SyncedRow >> }
  /\ outbox = <<>>
  /\ digest_logs = <<>>
  /\ decision_logs = <<>>
  /\ answer = NULL
  /\ stripe \in [ configured : BOOLEAN, subscriptions : StripeSubscriptions ]
  /\ sendAll = NULL
  /\ sync = NULL
  /\ upsert = NULL
  /\ event = NULL
  /\ toggles = <<>>

\* a call of syncBillingData at the point it has reached
SyncCall(founderId, token, pc, depth, attempts, refreshes, error) ==
  [ founderId |-> founderId,
    token     |-> token,
    pc        |-> pc,
    depth     |-> depth,
    attempts  |-> attempts,
    refreshes |-> refreshes,
    error     |-> error ]

\* syncBillingData(founderId, accessToken?) up to its try block: the token
\* given or else the one of getValidAccessToken; without one it throws
StartSync(founderId, accessToken, reply) ==
  /\ sync = NULL
  /\ LET got == IF accessToken # NULL
                THEN [ token |-> accessToken, rows |-> founderRows ]
                ELSE getValidAccessToken(founderId, reply)
     IN  /\ founderRows' = got.rows
         /\ sync' =
              IF got.token = NULL
              THEN << SyncCall(founderId, NULL, "thrown", 0, 0, 0,
                               "No valid Stripe token available") >>
              ELSE << SyncCall(founderId, got.token, "list", 0, 0, 0, "") >>
  /\ UNCHANGED <<engineVars, aiVars, digestVars, stripe, sendAll, upsert,
                 event, toggles>>

\* the try block: subscriptions.list answers and the accounts are upserted,
\* or it throws 'Invalid API Key' (the catch block goes on to the refresh)
\* or anything else (rethrown)
ListSubscriptions(outcome, failing) ==
  /\ sync # NULL
  /\ sync[1].pc = "list"
  /\ sync[1].attempts < MaxAttempts
  /\ failing \subseteq DOMAIN stripe.subscriptions
  /\ outcome = "data" \/ failing = {}
  /\ accountRows' =
       IF outcome = "data"
       THEN syncRows(accountRows, sync[1].founderId, stripe.subscriptions, 1,
                     failing, clock)
       ELSE accountRows
  /\ sync' =
       << [ sync[1] EXCEPT
              !.attempts = @ + 1,
              !.pc = CASE outcome = "data"       -> "returned"
                       [] outcome = "invalidKey" -> "refresh"
                       [] OTHER                  -> "thrown",
              !.error = IF outcome = "error" THEN "err.message" ELSE "" ] >>
  /\ UNCHANGED <<engineVars, aiVars, founders, outbox, digest_logs,
                 decision_logs, answer, founderRows, stripe, sendAll, upsert,
                 event, toggles>>

\* the catch block on 'Invalid API Key': refreshStripeToken, and with a new
\* token the call of syncBillingData(founderId, newToken), whose outcome is
\* the outcome of this call; without one it throws
RefreshAndRetry(reply) ==
  /\ sync # NULL
  /\ sync[1].pc = "refresh"
  /\ LET got == refreshStripeToken(sync[1].founderId, reply)
     IN  /\ founderRows' = got.rows
         /\ sync' =
              IF got.token # NULL
              THEN << [ sync[1] EXCEPT !.refreshes = @ + 1,
                                       !.token = got.token,
                                       !.depth = @ + 1,
                                       !.pc = "list" ] >>
              ELSE << [ sync[1] EXCEPT
                          !.refreshes = @ + 1,
                          !.pc = "thrown",
                          !.error = "Stripe token expired and refresh failed" ] >>
  /\ UNCHANGED <<engineVars, aiVars, digestVars, stripe, sendAll, upsert,
                 event, toggles>>

\* the free audit: the accounts fetchAccountsFromStripe builds in memory
FetchAccountsFromStripe ==
  /\ accounts = <<>>
  /\ stripe.subscriptions # <<>>
  /\ accounts' = fetchAccountsFromStripe(stripe.subscriptions, 1)
  /\ UNCHANGED <<clock, subject, log, rules, batch, serviceVars>>

NextSync ==
  \/ \E founderId \in FounderId, accessToken \in Credential("tok"),
        reply \in RefreshReply :
       StartSync(founderId, accessToken, reply)
  \/ \E outcome \in {"data", "invalidKey", "error"},
        failing \in SUBSET (1..MaxSubs) :
       ListSubscriptions(outcome, failing)
  \/ \E reply \in RefreshReply : RefreshAndRetry(reply)
  \/ FetchAccountsFromStripe

SpecSync == InitSync /\ [][NextSync]_vars


\* ---------------------------------------------------------- upsertAccount
\* the optional argument stripe_subscription_id: left out, empty, or an id
SubscriptionIdArg == { NULL, <<"">>, <<"sub_1">>, <<"sub_2">> }

\* the billing columns a call writes; email, name and stripe_customer_id
\* are written wherever mrr is
UpsertPayload ==
  { [ mrr |-> 10, billing_status |-> "ACTIVE", cancel_at_period_end |-> FALSE ],
    [ mrr |-> 20, billing_status |-> "CANCELING", cancel_at_period_end |-> TRUE ] }

\* args of upsertAccount
UpsertArgs ==
  [ founderId              : AllFounderId,
    stripe_subscription_id : SubscriptionIdArg,
    payload                : UpsertPayload ]

\* !args.stripe_subscription_id: undefined or the empty string
NoSubscriptionId(args) ==
  args.stripe_subscription_id = NULL \/ args.stripe_subscription_id = <<"">>

\* the row ctx.db.insert('accounts', ...) adds
insertedAccount(args, now) ==
  [ founder_id             |-> args.founderId,
    stripe_subscription_id |-> args.stripe_subscription_id,
    mrr                    |-> args.payload.mrr,
    updated_at             |-> now,
    fields |-> [ activated            |-> FALSE,
                 core_used            |-> FALSE,
                 usage_freq           |-> "WEEKLY",
                 billing_status       |-> args.payload.billing_status,
                 cancel_at_period_end |-> args.payload.cancel_at_period_end,
                 created_at           |-> <<now>>,
                 last_active_at       |-> NULL ] ]

\* the positions of the rows the index by_stripe_subscription gives for an
\* id, in the order of the table
by_stripe_subscription(rows, id) ==
  { k \in DOMAIN rows : rows[k].stripe_subscription_id = id }

\* what a call of upsertAccount leaves: the table and the id it returns
Upserted(rows, id) == [ rows |-> rows, id |-> id ]

upsertAccount_insertOnly(rows, args, now) ==
  Upserted(Append(rows, insertedAccount(args, now)), Len(rows) + 1)

\* the mutation upsertAccount, a transaction: without a subscription id it
\* inserts; with one it patches the first account the index gives for it,
\* or inserts when there is none
upsertAccount(rows, args, now) ==
  LET existing == by_stripe_subscription(rows, args.stripe_subscription_id)
  IN  IF NoSubscriptionId(args)
      THEN Upserted(Append(rows, insertedAccount(args, now)), Len(rows) + 1)
      ELSE IF existing # {}
      THEN LET id == CHOOSE k \in existing : \A j \in existing : k <= j
           IN  Upserted(
                 [ rows EXCEPT
                     ![id].mrr = args.payload.mrr,
                     ![id].updated_at = now,
                     ![id].fields.billing_status = args.payload.billing_status,
                     ![id].fields.cancel_at_period_end =
                        args.payload.cancel_at_period_end ],
                 id)
      ELSE Upserted(Append(rows, insertedAccount(args, now)), Len(rows) + 1)

\* an account of f1 for sub_1 created at instant 0 and used since
UsedRow ==
  [ founder_id             |-> "f1",
    stripe_subscription_id |-> <<"sub_1">>,
    mrr                    |-> 10,
    updated_at             |-> 0,
    fields |-> [ activated            |-> TRUE,
                 core_used            |-> TRUE,
                 usage_freq           |-> "DAILY",
                 billing_status       |-> "ACTIVE",
                 cancel_at_period_end |-> FALSE,
                 created_at           |-> <<0>>,
                 last_active_at       |-> <<0>> ] ]

InitUpsert ==
  /\ clock = 1
  /\ subject = CHOOSE a \in BatchAccount : TRUE
  /\ log = <<>>
  /\ rules = RULES_IN_ORDER
  /\ NoBatch
  /\ genAI = FALSE
  /\ gen = NULL
  /\ recs = NULL
  /\ founders = AllFounderId
  /\ founderRows = [ f \in founders |-> NewFounder ]
  /\ accountRows \in { <<>>, << UsedRow >> }
  /\ outbox = <<>>
  /\ digest_logs = <<>>
  /\ decision_logs = <<>>
  /\ answer = NULL
  /\ stripe = NoStripe
  /\ sendAll = NULL
  /\ sync = NULL
  /\ upsert = NULL
  /\ event = NULL
  /\ toggles = <<>>

\* a call of upsertAccount at the instant of the clock; calls are one
\* tick apart
UpsertAccount(args) ==
  /\ clock <= MaxUpserts
  /\ LET done == upsertAccount(accountRows, args, clock)
     IN  /\ accountRows' = done.rows
         /\ upsert' = << [ args   |-> args,
                           now    |-> clock,
                           before |-> accountRows,
                           id     |-> done.id ] >>
  /\ clock' = clock + 1
  /\ UNCHANGED <<subject, log, rules, accounts, batch, aiVars, founders,
                 outbox, digest_logs, decision_logs, answer, founderRows,
                 stripe, sendAll, sync, event, toggles>>

NextUpsert == \E args \in UpsertArgs : UpsertAccount(args)

SpecUpsert == InitUpsert /\ [][NextUpsert]_vars


\* ----------------------------------------------------- handleWebhookEvent
\* the event types of the switch, and one it has no case for
WebhookEventType ==
  { "payment.succeeded", "subscription.active", "subscription.canceled",
    "subscription.expired", "payment.failed" }

\* payload.metadata?.founder_id: undefined, empty, or an id
WebhookFounderId == { NULL, <<"">>, <<"f1">>, <<"f2">> }

\* !founderId
NoFounderId(founder_id) == founder_id = NULL \/ founder_id = <<"">>

\* the columns of a founder after a patch with `updates`
patch(row, updates) ==
  [ column \in DOMAIN row |->
      IF column \in DOMAIN updates THEN updates[column] ELSE row[column] ]

updateFounder_everyRow(rows, id, updates) ==
  [ f \in DOMAIN rows |-> patch(rows[f], updates) ]

\* founders.updateFounder, and .update(updates).eq('id', id): the columns
\* of `updates` are written in the row of that id, if there is one
updateFounder(rows, id, updates) ==
  IF id \in DOMAIN rows
  THEN [ rows EXCEPT ![id] = patch(rows[id], updates) ]
  ELSE rows

\* table founders after handleWebhookEvent(eventType, payload); when the
\* write fails nothing is written
handleWebhookEvent(eventType, founder_id, writeFails) ==
  IF NoFounderId(founder_id) THEN founderRows
  ELSE IF eventType \in {"payment.succeeded", "subscription.active"}
  THEN IF writeFails THEN founderRows
       ELSE updateFounder(founderRows, founder_id[1], [ plan |-> "pro" ])
  ELSE IF eventType \in {"subscription.canceled", "subscription.expired"}
  THEN IF writeFails THEN founderRows
       ELSE updateFounder(founderRows, founder_id[1],
                          [ plan |-> "paused", service_paused |-> TRUE ])
  ELSE founderRows

\* the rows of table founders of the account handlers
AccountFounder ==
  { [ NewFounder EXCEPT !.plan = p, !.service_paused = s ] :
      p \in {"trial", "pro", "paused"}, s \in BOOLEAN }

InitAccount ==
  /\ clock = ArrayClock
  /\ subject = CHOOSE a \in BatchAccount : TRUE
  /\ log = <<>>
  /\ rules = RULES_IN_ORDER
  /\ NoBatch
  /\ genAI = FALSE
  /\ gen = NULL
  /\ recs = NULL
  /\ founders \in SUBSET AllFounderId
  /\ founderRows \in [ founders -> AccountFounder ]
  /\ accountRows = <<>>
  /\ outbox = <<>>
  /\ digest_logs = <<>>
  /\ decision_logs = <<>>
  /\ answer = NULL
  /\ stripe = NoStripe
  /\ sendAll = NULL
  /\ sync = NULL
  /\ upsert = NULL
  /\ event = NULL
  /\ toggles = <<>>

\* POST /api/webhooks/dodo has verified the signature and awaits
\* handleWebhookEvent(eventType, payload)
HandleWebhookEvent(eventType, founder_id, writeFails) ==
  /\ founderRows' = handleWebhookEvent(eventType, founder_id, writeFails)
  /\ event' = << [ type       |-> eventType,
                   founder_id |-> founder_id,
                   writeFails |-> writeFails,
                   before     |-> founderRows ] >>
  /\ UNCHANGED <<engineVars, aiVars, digestVars, stripe, sendAll, sync,
                 upsert, toggles>>

NextWebhook ==
  \E eventType \in WebhookEventType, founder_id \in WebhookFounderId,
     writeFails \in BOOLEAN :
    HandleWebhookEvent(eventType, founder_id, writeFails)

SpecWebhook == InitAccount /\ [][NextWebhook]_vars


\* ------------------------------------------ POST /api/account/toggle-pause
\* a request of the handler: whose session it carries (null without one),
\* the stored value when it arrived, where it stands, the value it read,
\* and its response
ToggleRequest(session, was, pc, currentState, status, body) ==
  [ session      |-> session,
    was          |-> was,
    pc           |-> pc,
    currentState |-> currentState,
    status       |-> status,
    body         |-> body ]

\* a request arrives.  Without a session the handler answers 401 at once;
\* with one it sends the query of the founder.
ReceiveToggle(session) ==
  /\ Len(toggles) < MaxToggles
  /\ toggles' =
       Append(toggles,
              IF session = NULL
              THEN ToggleRequest(NULL, NULL, "done", NULL, 401, NULL)
              ELSE ToggleRequest(
                     session,
                     IF session[1] \in founders
                     THEN << founderRows[session[1]].service_paused >>
                     ELSE NULL,
                     "query", NULL, 0, NULL))
  /\ UNCHANGED <<engineVars, aiVars, digestVars, founderRows, stripe,
                 sendAll, sync, upsert, event>>

\* the query of request i answers: 404 on an error or without the founder,
\* else currentState is the stored service_paused and the update is sent
ToggleQuery(i, fetchError) ==
  /\ i \in DOMAIN toggles
  /\ toggles[i].pc = "query"
  /\ toggles' =
       [ toggles EXCEPT ![i] =
           IF fetchError \/ toggles[i].session[1] \notin founders
           THEN [ @ EXCEPT !.pc = "done", !.status = 404 ]
           ELSE [ @ EXCEPT
                    !.pc = "update",
                    !.currentState =
                       << founderRows[toggles[i].session[1]].service_paused >> ] ]
  /\ UNCHANGED <<engineVars, aiVars, digestVars, founderRows, stripe,
                 sendAll, sync, upsert, event>>

\* the update of request i is applied: service_paused becomes the negation
\* of the value the request read, which is also what it answers; 500 when
\* the update fails
ToggleUpdate(i, updateError) ==
  /\ i \in DOMAIN toggles
  /\ toggles[i].pc = "update"
  /\ founderRows' =
       IF updateError THEN founderRows
       ELSE updateFounder(founderRows, toggles[i].session[1],
                          [ service_paused |-> ~toggles[i].currentState[1] ])
  /\ toggles' =
       [ toggles EXCEPT ![i] =
           IF updateError
           THEN [ @ EXCEPT !.pc = "done", !.status = 500 ]
           ELSE [ @ EXCEPT !.pc = "done", !.status = 200,
                           !.body = << ~toggles[i].currentState[1] >> ] ]
  /\ UNCHANGED <<engineVars, aiVars, digestVars, stripe, sendAll, sync,
                 upsert, event>>

\* The requests are served concurrently: between the query and the update
\* of one request, steps of the others may take place.
NextToggle ==
  \/ \E session \in { NULL, <<"f1">>, <<"f2">> } : ReceiveToggle(session)
  \/ \E i \in 1..MaxToggles, fetchError \in BOOLEAN : ToggleQuery(i, fetchError)
  \/ \E i \in 1..MaxToggles, updateError \in BOOLEAN :
       ToggleUpdate(i, updateError)

SpecToggle == InitAccount /\ [][NextToggle]_vars


\* ================================================================ claims
Called == Len(log) > 0

Last == log[Len(log)]

\* The predicates of the rule table, over the account of a call and the two
\* day counts the call derived.
TableH4(c) == c.account.cancel_at_period_end

TableH3(c) == c.account.billing_status = "PAYMENT_FAILED"

TableH2(c) == ~c.account.activated /\ c.accountAgeDays > 7

TableH1(c) ==
  /\ c.account.activated
  /\ c.daysSinceActive # NULL
  /\ \/ c.account.usage_freq = "DAILY" /\ c.daysSinceActive[1] > 7
     \/ c.account.usage_freq = "WEEKLY" /\ c.daysSinceActive[1] > 14

TableM1(c) ==
  /\ c.daysSinceActive # NULL
  /\ c.daysSinceActive[1] > 4
  /\ ~c.account.core_used

TableHolds(id, c) ==
  CASE id = "H4" -> TableH4(c)
    [] id = "H3" -> TableH3(c)
    [] id = "H2" -> TableH2(c)
    [] id = "H1" -> TableH1(c)
    [] id = "M1" -> TableM1(c)
    [] id = "G1" -> TRUE

TableOrder == << "H4", "H3", "H2", "H1", "M1", "G1" >>

EarliestHolding(c) ==
  LET i == CHOOSE k \in 1..Len(TableOrder) :
             /\ TableHolds(TableOrder[k], c)
             /\ \A j \in 1..(k - 1) : ~TableHolds(TableOrder[j], c)
  IN  TableOrder[i]

\* C1: evaluateAccount is total: every call, for every account and every
\* reading of the clock, returns one RuleResult whose riskLevel is HIGH,
\* MEDIUM or HEALTHY, never an undefined result.
C1_Total ==
  \A i \in DOMAIN log :
    /\ log[i].result \in RuleResult
    /\ log[i].result.riskLevel \in {"HIGH", "MEDIUM", "HEALTHY"}

\* a call in which no rule before the catch-all matched
C1_Witness ==
  /\ Called
  /\ \A k \in 1..5 : ~TableHolds(TableOrder[k], Last)
  /\ Last.result.ruleId = "G1"

\* C2: first match wins in the order H4, H3, H2, H1, M1, G1: the ruleId is
\* that of the earliest rule whose predicate holds; cancel_at_period_end
\* gives H4 whatever else holds, and PAYMENT_FAILED without it gives H3.
C2_FirstMatchWins ==
  \A i \in DOMAIN log :
    /\ log[i].result.ruleId = EarliestHolding(log[i])
    /\ log[i].account.cancel_at_period_end => log[i].result.ruleId = "H4"
    /\ (/\ log[i].account.billing_status = "PAYMENT_FAILED"
        /\ ~log[i].account.cancel_at_period_end)
         => log[i].result.ruleId = "H3"

\* a failed payment of a DAILY user inactive for 10 days: H3, H1 and M1 hold
C2_Witness ==
  /\ Called
  /\ Last.account.billing_status = "PAYMENT_FAILED"
  /\ ~Last.account.cancel_at_period_end
  /\ Last.account.usage_freq = "DAILY"
  /\ Last.daysSinceActive = <<10>>
  /\ TableH1(Last)
  /\ Last.result.ruleId = "H3"

\* C3: a result carries the risk level and the suggested action of the rule
\* its ruleId names: H4, H3, H2, H1 with HIGH and SEND_MESSAGE, M1 with MEDIUM
\* and SEND_MESSAGE, G1 with HEALTHY and DO_NOTHING; so HEALTHY if and only
\* if DO_NOTHING.
C3_RiskAndActionOfRule ==
  \A i \in DOMAIN log :
    LET r == log[i].result
    IN  /\ r.ruleId \in {"H4", "H3", "H2", "H1"}
             => r.riskLevel = "HIGH" /\ r.suggestedAction = "SEND_MESSAGE"
        /\ r.ruleId = "M1"
             => r.riskLevel = "MEDIUM" /\ r.suggestedAction = "SEND_MESSAGE"
        /\ r.ruleId = "G1"
             => r.riskLevel = "HEALTHY" /\ r.suggestedAction = "DO_NOTHING"
        /\ r.ruleId \in {"H4", "H3", "H2", "H1", "M1", "G1"}
        /\ r.riskLevel = "HEALTHY" <=> r.suggestedAction = "DO_NOTHING"

C3_Witness ==
  /\ Called
  /\ Last.result.riskLevel = "HEALTHY"
  /\ Last.result.suggestedAction = "DO_NOTHING"

\* C4: without a pending cancellation and a failed payment, a never
\* activated account is H2 if and only if accountAgeDays > 7.
C4_H2Boundary ==
  \A i \in DOMAIN log :
    (/\ ~log[i].account.cancel_at_period_end
     /\ log[i].account.billing_status # "PAYMENT_FAILED"
     /\ ~log[i].account.activated)
      => (log[i].result.ruleId = "H2" <=> log[i].accountAgeDays > 7)

C4_Witness ==
  /\ Called
  /\ ~Last.account.cancel_at_period_end
  /\ Last.account.billing_status # "PAYMENT_FAILED"
  /\ ~Last.account.activated
  /\ Last.accountAgeDays = 8
  /\ Last.result.ruleId = "H2"

\* C5: without a pending cancellation and a failed payment, an activated
\* account is H1 if and only if daysSinceActive is not null and exceeds 7
\* (DAILY) or 14 (WEEKLY).
C5_H1Boundary ==
  \A i \in DOMAIN log :
    (/\ ~log[i].account.cancel_at_period_end
     /\ log[i].account.billing_status # "PAYMENT_FAILED"
     /\ log[i].account.activated)
      => (log[i].result.ruleId = "H1"
           <=> /\ log[i].daysSinceActive # NULL
               /\ log[i].daysSinceActive[1] >
                    (IF log[i].account.usage_freq = "DAILY" THEN 7 ELSE 14))

C5_Witness ==
  /\ Called
  /\ ~Last.account.cancel_at_period_end
  /\ Last.account.billing_status # "PAYMENT_FAILED"
  /\ Last.account.activated
  /\ Last.account.usage_freq = "WEEKLY"
  /\ Last.daysSinceActive = <<15>>
  /\ Last.result.ruleId = "H1"

\* C6: the result is M1 (MEDIUM) if and only if daysSinceActive is not null
\* and > 4, core_used is false and no HIGH predicate holds; whenever a HIGH
\* predicate holds the result is HIGH.
C6_M1OnlyWithoutHigh ==
  \A i \in DOMAIN log :
    LET c    == log[i]
        high == TableH4(c) \/ TableH3(c) \/ TableH2(c) \/ TableH1(c)
    IN  /\ c.result.ruleId = "M1" <=> (TableM1(c) /\ ~high)
        /\ c.result.riskLevel = "MEDIUM" <=> c.result.ruleId = "M1"
        /\ high => c.result.riskLevel = "HIGH"

C6_Witness ==
  /\ Called
  /\ Last.daysSinceActive = <<5>>
  /\ ~Last.account.core_used
  /\ Last.result.ruleId = "M1"
  /\ Last.result.riskLevel = "MEDIUM"

\* C7: the result is G1, HEALTHY, DO_NOTHING if and only if none of the H4,
\* H3, H2, H1, M1 predicates holds.
C7_HealthyDefault ==
  \A i \in DOMAIN log :
    LET c    == log[i]
        none == \A k \in 1..5 : ~TableHolds(TableOrder[k], c)
    IN  (/\ c.result.ruleId = "G1"
         /\ c.result.riskLevel = "HEALTHY"
         /\ c.result.suggestedAction = "DO_NOTHING") <=> none

C7_Witness ==
  /\ Called
  /\ Last.account.activated
  /\ Last.account.core_used
  /\ Last.account.billing_status = "ACTIVE"
  /\ ~Last.account.cancel_at_period_end
  /\ Last.daysSinceActive = <<2>>
  /\ Last.result.ruleId = "G1"

\* C8: an account whose last_active_at is null is never H1 or M1; its result
\* is one of H4, H3, H2, G1.
C8_NullSafe ==
  \A i \in DOMAIN log :
    log[i].account.last_active_at = NULL
      => log[i].result.ruleId \in {"H4", "H3", "H2", "G1"}

\* an activated account never seen active, evaluated 15 days after the epoch
C8_Witness ==
  /\ Called
  /\ Last.account.last_active_at = NULL
  /\ Last.account.activated
  /\ ~Last.account.core_used
  /\ Last.now2 >= 15 * TicksPerDay
  /\ Last.daysSinceActive = NULL
  /\ Last.result.ruleId = "G1"

C10_SingleNow ==
  \A i \in DOMAIN log :
    \E now \in log[i].now1 .. log[i].now2 :
      log[i].result = evaluateAccount(log[i].account, now, now).result

\* ---------------------------------------------------------------- batches

BatchOf(fn) == batch # NULL /\ batch[1].fn = fn

\* the k-th smallest of a set of positions
KthOf(S, k) == CHOOSE i \in S : Cardinality({ j \in S : j < i }) = k - 1

\* the entries of the positions S of a batch, in input order: each pairs the
\* input account with the result of the call made for it
EntriesAt(b, S) ==
  [ k \in 1..Cardinality(S) |->
      [ account |-> b.input[KthOf(S, k)],
        result  |-> b.calls[KthOf(S, k)].result ] ]

\* the positions of a batch whose call gave a risk level in levels
PositionsOf(b, levels) ==
  { i \in DOMAIN b.input : b.calls[i].result.riskLevel \in levels }

\* C11: without riskOnly, evaluateAccounts returns as many entries as it was
\* given accounts, and entry i pairs accounts[i] with the result of the
\* evaluateAccount call made for it, which is the rule table's result.
C11_BatchConsistent ==
  (BatchOf("evaluateAccounts") /\ ~batch[1].riskOnly) =>
    LET b == batch[1]
    IN  /\ Len(b.out) = Len(b.input)
        /\ \A i \in DOMAIN b.input :
             /\ b.out[i].account = b.input[i]
             /\ b.out[i].result = b.calls[i].result
             /\ b.out[i].result.ruleId = EarliestHolding(b.calls[i])

\* a full array with a healthy account between two accounts at risk
C11_Witness ==
  /\ BatchOf("evaluateAccounts")
  /\ ~batch[1].riskOnly
  /\ Len(batch[1].input) = MaxBatch
  /\ Len(batch[1].out) = MaxBatch
  /\ \E i, j \in DOMAIN batch[1].out :
       /\ batch[1].out[i].result.riskLevel = "HEALTHY"
       /\ batch[1].out[j].result.riskLevel # "HEALTHY"

\* C12: with riskOnly, evaluateAccounts returns exactly the entries of the
\* unfiltered output whose risk level is not HEALTHY, in input order: no
\* HEALTHY entry kept, no HIGH or MEDIUM entry dropped.
C12_RiskOnlySubsequence ==
  (BatchOf("evaluateAccounts") /\ batch[1].riskOnly) =>
    LET b == batch[1]
    IN  /\ b.out = EntriesAt(b, PositionsOf(b, {"HIGH", "MEDIUM"}))
        /\ \A k \in DOMAIN b.out : b.out[k].result.riskLevel # "HEALTHY"
        /\ Len(b.out) = Cardinality(PositionsOf(b, {"HIGH", "MEDIUM"}))

\* a filtered call that dropped a HEALTHY entry and kept a MEDIUM one
C12_Witness ==
  /\ BatchOf("evaluateAccounts")
  /\ batch[1].riskOnly
  /\ PositionsOf(batch[1], {"HEALTHY"}) # {}
  /\ \E k \in DOMAIN batch[1].out : batch[1].out[k].result.riskLevel = "MEDIUM"
  /\ Len(batch[1].out) < Len(batch[1].input)

\* C13: the buckets of groupByRisk partition its input: the bucket of a
\* level holds exactly the entries whose result has that level, in input
\* order, so every input position is in one bucket only and the three sizes
\* sum to the input size.
C13_GroupsPartition ==
  BatchOf("groupByRisk") =>
    LET b == batch[1]
    IN  /\ \A level \in RiskLevel :
             b.out[level] = EntriesAt(b, PositionsOf(b, {level}))
        /\ Len(b.out.HIGH) + Len(b.out.MEDIUM) + Len(b.out.HEALTHY)
             = Len(b.input)
        /\ \A i \in DOMAIN b.input :
             Cardinality({ level \in RiskLevel :
                            i \in PositionsOf(b, {level}) }) = 1

\* a grouping of a full array with a MEDIUM and a HEALTHY or HIGH entry
C13_Witness ==
  /\ BatchOf("groupByRisk")
  /\ Len(batch[1].input) = MaxBatch
  /\ Len(batch[1].out.MEDIUM) > 0
  /\ Len(batch[1].out.HIGH) + Len(batch[1].out.HEALTHY) > 0

\* C14: no call of evaluateAccount, evaluateAccounts or groupByRisk changes
\* a field of an account it was given, or the rule list.
C14_SideEffectFree ==
  [][subject' = subject /\ accounts' = accounts /\ rules' = rules]_vars

\* an account evaluated alone and a non-empty array evaluated with the
\* filter, the array and the rule list being what they were
C14_Witness ==
  /\ Called
  /\ BatchOf("evaluateAccounts")
  /\ batch[1].riskOnly
  /\ Len(batch[1].out) < Len(batch[1].input)
  /\ accounts = batch[1].input
  /\ Last.account = subject
  /\ rules = RULES_IN_ORDER

\* ------------------------------------------------------- H2, H1 and days

\* the rule list with H1 listed before H2
RulesH1BeforeH2 ==
  << H4_PreCancel, H3_PaymentFailure, H1_SilentDropoff,
     H2_NeverActivated, M1_LowEngagement, Healthy >>

\* the first rule of the list `order`, from position i on, whose predicate
\* holds for the account and the day counts of the call c
RECURSIVE FirstMatchIn(_, _, _)
FirstMatchIn(order, i, c) ==
  IF i > Len(order)
  THEN Fallback
  ELSE IF evaluate(order[i], c.account, c.accountAgeDays, c.daysSinceActive)
       THEN ResultOf(order[i], c.account)
       ELSE FirstMatchIn(order, i + 1, c)

\* C15: the predicates of H2 and H1 never both hold for the account and the
\* day counts of a call, and an evaluator that lists H1 before H2 returns
\* the RuleResult the call returned.
C15_H2H1Exclusive ==
  Called =>
    /\ ~(/\ H2_evaluate(Last.account, Last.accountAgeDays)
         /\ H1_evaluate(Last.account, Last.daysSinceActive))
    /\ Last.result = FirstMatchIn(RulesH1BeforeH2, 1, Last)

\* a never-activated account old enough for H2 and silent long enough for
\* H1's thresholds, on which only the activated flag decides
C15_Witness ==
  /\ Called
  /\ ~Last.account.activated
  /\ Last.accountAgeDays > 7
  /\ Last.daysSinceActive # NULL
  /\ Last.daysSinceActive[1] > 14
  /\ Last.result.ruleId = "H2"

\* d is the number of whole days in the span from `earlier` to `later`
WholeDays(d, later, earlier) ==
  /\ d * TicksPerDay <= later - earlier
  /\ later - earlier < (d + 1) * TicksPerDay

\* C16: for a timestamp in the past the day count is the number of whole
\* days elapsed, the rest of a day being dropped: an account aged 7 days and
\* all but one instant of the 8th has accountAgeDays 7 and is not H2; an
\* absent last_active_at gives null, never 0.
C16_DaysTruncate ==
  Called =>
    LET c       == Last
        created == c.account.created_at[1]
    IN  /\ c.now1 >= created =>
             WholeDays(c.accountAgeDays, c.now1, created)
        /\ (c.account.last_active_at # NULL
              /\ c.now2 >= c.account.last_active_at[1]) =>
             /\ c.daysSinceActive # NULL
             /\ WholeDays(c.daysSinceActive[1], c.now2,
                          c.account.last_active_at[1])
        /\ c.account.last_active_at = NULL => c.daysSinceActive = NULL
        /\ c.now1 - created = 7 * TicksPerDay + (TicksPerDay - 1) =>
             /\ c.accountAgeDays = 7
             /\ c.result.ruleId # "H2"

\* a never-activated, never-active account one instant short of 8 days old
C16_Witness ==
  /\ Called
  /\ ~Last.account.activated
  /\ Last.now1 - Last.account.created_at[1]
       = 7 * TicksPerDay + (TicksPerDay - 1)
  /\ Last.accountAgeDays = 7
  /\ Last.account.last_active_at = NULL
  /\ Last.daysSinceActive = NULL
  /\ Last.result.ruleId = "G1"

\* ------------------------------------------------------- AI generation

GenCalled == gen # NULL

\* the reply is output that passes the schema
ValidOutput(reply) == reply.kind = "json" /\ AiOutputSchema(reply.parsed)

\* C18: a call of generateRecommendation resolves, it never rejects.  When
\* the AI is skipped or not configured, the account is HEALTHY, the AI call
\* throws, the output is empty, not JSON or not of the schema, or it has a
\* banned word, the result is getFallback(ruleId) with fallbackUsed true;
\* fallbackUsed is false only when the validated output is what is returned.
C18_NeverFails ==
  GenCalled =>
    LET g       == gen[1]
        skipped == \/ g.options.skipAi
                   \/ ~genAI
                   \/ g.ruleResult.riskLevel = "HEALTHY"
        bad     == \/ g.reply.kind \in {"throws", "empty", "notJson"}
                   \/ ~ValidOutput(g.reply)
                   \/ containsBannedWords(allTextOf(g.reply.parsed))
    IN  /\ g.settled.status = "resolved"
        /\ (skipped \/ bad) =>
             /\ g.settled.value.fallbackUsed
             /\ g.settled.value.explanation = getFallback(g.ruleResult.ruleId).explanation
             /\ g.settled.value.action = getFallback(g.ruleResult.ruleId).action
             /\ g.settled.value.message = getFallback(g.ruleResult.ruleId).message
        /\ ~g.settled.value.fallbackUsed =>
             /\ ~skipped
             /\ ValidOutput(g.reply)
             /\ g.settled.value.explanation = Generated(g.reply.parsed.explanation.chars)
             /\ g.settled.value.action = g.reply.parsed.action.name

\* the AI was asked about an account at risk and threw
C18_Witness ==
  /\ GenCalled
  /\ genAI
  /\ ~gen[1].options.skipAi
  /\ gen[1].ruleResult.riskLevel = "HIGH"
  /\ gen[1].reply.kind = "throws"
  /\ gen[1].settled.status = "resolved"
  /\ gen[1].settled.value.fallbackUsed

\* C17: the AI has no part in the decision: each entry that
\* generateRecommendations fills carries the account, the ruleId and the
\* riskLevel that evaluateAccount computed, and the action of its
\* recommendation is the suggestedAction of its RuleResult.
C17_AiNeverDecides ==
  recs # NULL =>
    \A i \in DOMAIN recs[1].out :
      recs[1].out[i] # NULL =>
        LET e        == recs[1].out[i][1]
            computed == evaluateAccount(e.account, clock, clock).result
        IN  /\ e.account = recs[1].input[i].account
            /\ e.result.ruleId = computed.ruleId
            /\ e.result.riskLevel = computed.riskLevel
            /\ e.recommendation.action = e.result.suggestedAction

\* -------------------------------------------------------- weekly digest

\* a request with a session has been answered
Served == answer # NULL /\ answer[1].session # NULL

\* the ids of the accounts of a founder whose subscription has not ended
AccountsOf(founderId) ==
  { i \in DOMAIN accountRows :
      /\ accountRows[i].founder_id = founderId
      /\ accountRows[i].fields.billing_status # "CANCELED" }

\* the decision logs written for account i
LogsOf(i) == { k \in DOMAIN decision_logs : decision_logs[k].account_id = i }

C20_NoEmailWhenNoRisk ==
  answer # NULL =>
    /\ (/\ answer[1].response.status = 200
         /\ answer[1].response.riskCount = 0
         /\ answer[1].response.message = "No at-risk accounts found, no email sent")
          => outbox = <<>>
    /\ outbox # <<>> => answer[1].response.riskCount > 0


\* the run of sendAllWeeklyDigests in hand
Run == sendAll[1]

\* C21, the part about every state of a run: the results are those of the
\* selected founders, one each, in the order of the selection; and once
\* the run has returned, no founder is left out whatever failed, and
\* total = successful + failed = the number of entries of results, which
\* is the number of founders selected when the query did not fail.
C21_OncePerFounder ==
  sendAll # NULL =>
    /\ Len(Run.results) <= Len(Run.selected)
    /\ \A k \in 1..Len(Run.results) :
         Run.results[k].founderId = Run.selected[k]
    /\ \A i, j \in 1..Len(Run.results) :
         Run.results[i].founderId = Run.results[j].founderId => i = j
    /\ Run.returned # NULL =>
         LET out == Run.returned[1]
         IN  /\ out.results = Run.results
             /\ Len(out.results) = Len(Run.selected)
             /\ out.total = Len(Run.selected)
             /\ out.total = out.successful + out.failed

\* C21: sendAllWeeklyDigests processes every selected founder exactly once,
\* in order, a failure for one founder never prevents the remaining ones
\* from being processed, and the run always completes with one entry per
\* founder and total = successful + failed = number of founders.
C21_RunCompletes ==
  /\ []C21_OncePerFounder
  /\ (sendAll # NULL) ~> (sendAll # NULL /\ Run.returned # NULL)

\* a run over two founders has returned; the first digest failed, the
\* second was sent
C21_Witness ==
  /\ sendAll # NULL
  /\ Run.returned # NULL
  /\ Len(Run.selected) = 2
  /\ ~Run.returned[1].results[1].success
  /\ Run.returned[1].results[2].success
  /\ Run.returned[1].total = 2
  /\ outbox # <<>>


\* the founder holds a credential getValidAccessToken can return from the
\* table: a stored stripe_api_key or a stored stripe_access_token
HoldsCredential(f) ==
  founderRows[f].stripe_api_key # NULL
    \/ founderRows[f].stripe_access_token # NULL

\* the ids a run has selected
SelectedBy(run) == { run.selected[k] : k \in 1..Len(run.selected) }

\* C23: sendAllWeeklyDigests selects exactly the founders holding a stored
\* stripe_api_key or a stored stripe_access_token: every founder with only
\* an API key is included, and no founder without any stored credential.
C23_SelectsActiveFounders ==
  (sendAll # NULL /\ ~Run.failed) =>
    SelectedBy(Run) = { f \in founders : HoldsCredential(f) }


\* C22: a single outer call of syncBillingData makes at most two
\* subscription-list attempts and at most one token refresh after a failed
\* attempt, however the attempts and the refreshes go.
C22_RetriesOnce ==
  sync # NULL => (sync[1].attempts <= 2 /\ sync[1].refreshes <= 1)


\* the accounts billing normalisation has produced: the rows the sync
\* upserted and the in-memory accounts of the audit
NormalisedAccounts ==
  { accountRows[k].fields : k \in DOMAIN accountRows }
    \cup { accounts[k] : k \in DOMAIN accounts }

\* C25: every account produced by billing normalisation (sync or audit) has
\* cancel_at_period_end = true if and only if billing_status = CANCELING;
\* none has PAYMENT_FAILED together with cancel_at_period_end = true, and
\* every CANCELING one evaluates to H4.
C25_CancelingIffFlag ==
  \A account \in NormalisedAccounts :
    /\ account.cancel_at_period_end <=> account.billing_status = "CANCELING"
    /\ ~(account.billing_status = "PAYMENT_FAILED"
           /\ account.cancel_at_period_end)
    /\ account.billing_status = "CANCELING" =>
         evaluateAccount(account, clock, clock).result.ruleId = "H4"

\* the sync has returned and the audit has fetched, for a past_due
\* subscription that is to cancel at the end of the period
C25_Witness ==
  /\ sync # NULL
  /\ sync[1].pc = "returned"
  /\ accounts # <<>>
  /\ stripe.subscriptions # <<>>
  /\ stripe.subscriptions[1].status = "past_due"
  /\ stripe.subscriptions[1].cancel_at_period_end
  /\ \E k \in DOMAIN accountRows :
       accountRows[k].fields.billing_status = "CANCELING"
  /\ accounts[1].billing_status = "CANCELING"


\* the last call of upsertAccount
Upsert == upsert[1]

\* the call was given the subscription id of an account there was
OnExisting(call) ==
  /\ ~NoSubscriptionId(call.args)
  /\ by_stripe_subscription(call.before, call.args.stripe_subscription_id) # {}

\* the columns upsertAccount is not to touch on an update
KeptColumns(row) ==
  << row.founder_id, row.fields.last_active_at, row.fields.activated,
     row.fields.core_used, row.fields.usage_freq,
     row.stripe_subscription_id, row.fields.created_at >>

\* C26: upsertAccount on a subscription id that already has an account
\* updates that record in place and creates none, leaving its founder_id,
\* last_active_at, activated, core_used, usage_freq, stripe_subscription_id
\* and created_at (and every other account) as they were; and after any
\* sequence of calls no two accounts share a non-empty subscription id.
C26_UpsertInPlace ==
  /\ (upsert # NULL /\ OnExisting(Upsert)) =>
       /\ Len(accountRows) = Len(Upsert.before)
       /\ Upsert.id \in by_stripe_subscription(
                          Upsert.before, Upsert.args.stripe_subscription_id)
       /\ KeptColumns(accountRows[Upsert.id])
            = KeptColumns(Upsert.before[Upsert.id])
       /\ accountRows[Upsert.id].mrr = Upsert.args.payload.mrr
       /\ accountRows[Upsert.id].fields.billing_status
            = Upsert.args.payload.billing_status
       /\ accountRows[Upsert.id].fields.cancel_at_period_end
            = Upsert.args.payload.cancel_at_period_end
       /\ \A k \in DOMAIN accountRows :
            k # Upsert.id => accountRows[k] = Upsert.before[k]
  /\ \A i, j \in DOMAIN accountRows :
       ( /\ accountRows[i].stripe_subscription_id
              = accountRows[j].stripe_subscription_id
         /\ accountRows[i].stripe_subscription_id \notin {NULL, <<"">>} )
       => i = j

\* the used account of f1 for sub_1 was upserted by f2 with new billing
\* data among other accounts, and is still f1's used account
C26_Witness ==
  /\ upsert # NULL
  /\ OnExisting(Upsert)
  /\ Upsert.args.founderId = "f2"
  /\ Upsert.before[Upsert.id] = UsedRow
  /\ Len(accountRows) = 3
  /\ accountRows[Upsert.id].fields.billing_status = "CANCELING"
  /\ accountRows[Upsert.id].fields.activated
  /\ accountRows[Upsert.id].founder_id = "f1"


\* the last webhook event
Event == event[1]

\* the event names a founder of the table and its write went through
Written(e) ==
  /\ ~NoFounderId(e.founder_id)
  /\ e.founder_id[1] \in founders
  /\ ~e.writeFails

\* C24: 'payment.succeeded' or 'subscription.active' with a founder_id sets
\* that founder's plan to 'pro'; 'subscription.canceled' or
\* 'subscription.expired' sets plan to 'paused' and service_paused to true;
\* any other event type, or a payload without metadata.founder_id, changes
\* no founder; and no event changes a founder other than the one named.
C24_WebhookTransitions ==
  event # NULL =>
    /\ (Written(Event)
          /\ Event.type \in {"payment.succeeded", "subscription.active"}) =>
         founderRows[Event.founder_id[1]].plan = "pro"
    /\ (Written(Event)
          /\ Event.type \in {"subscription.canceled", "subscription.expired"}) =>
         /\ founderRows[Event.founder_id[1]].plan = "paused"
         /\ founderRows[Event.founder_id[1]].service_paused
    /\ ( \/ NoFounderId(Event.founder_id)
         \/ Event.type \notin { "payment.succeeded", "subscription.active",
                                "subscription.canceled",
                                "subscription.expired" } ) =>
         founderRows = Event.before
    /\ \A f \in founders :
         (NoFounderId(Event.founder_id) \/ f # Event.founder_id[1]) =>
           founderRows[f] = Event.before[f]

\* f1, on the pro plan and not paused, was paused by 'subscription.canceled'
\* while f2 stayed on the pro plan
C24_Witness ==
  /\ event # NULL
  /\ Event.type = "subscription.canceled"
  /\ Event.founder_id = <<"f1">>
  /\ founders = AllFounderId
  /\ Event.before["f1"].plan = "pro"
  /\ ~Event.before["f1"].service_paused
  /\ founderRows["f1"].plan = "paused"
  /\ founderRows["f1"].service_paused
  /\ founderRows["f2"].plan = "pro"
  /\ ~founderRows["f2"].service_paused


\* the requests of founder f that were answered 200, in order of arrival
ToggledBy(f) ==
  SelectSeq(toggles, LAMBDA r : r.session = <<f>> /\ r.status = 200)

\* the requests of founder f, in order of arrival
RequestsOf(f) == SelectSeq(toggles, LAMBDA r : r.session = <<f>>)

\* b negated n times
NegatedTimes(b, n) == IF n % 2 = 0 THEN b ELSE ~b

\* C27: once the toggle requests on a founder have been answered, however
\* their query and update steps interleaved, the stored service_paused is
\* the original value negated as many times as there were successful
\* requests.
C27_TogglesCompose ==
  \A f \in founders :
    ( /\ RequestsOf(f) # <<>>
      /\ \A k \in DOMAIN toggles : toggles[k].pc = "done" )
    => founderRows[f].service_paused
         = NegatedTimes(RequestsOf(f)[1].was[1], Len(ToggledBy(f)))

====
